---- MODULE Spec2Model ----
(***************************************************************************)
(* Model of dependabot-batch-review: the PR assembler                      *)
(* (fetch_dependency_prs), the batch driver (main) and the interactive     *)
(* review session (review_updates, read_action, merge_pr).                 *)
(*                                                                         *)
(* Strings that the program compares, sorts, strips, lower-cases or        *)
(* prefix-matches are sequences of one-character strings; strings that it  *)
(* only passes through or tests for equality are TLA+ strings.             *)
(***************************************************************************)
EXTENDS Integers, Sequences, FiniteSets, TLC

(***************************************************************************)
(* Bounds of the model.                                                    *)
(***************************************************************************)
\* Largest number of PR nodes in the search result.
MaxNodes == 3

(***************************************************************************)
(* Python values.                                                          *)
(***************************************************************************)
\* Optional[T]: None is the empty sequence and a present value x is <<x>>.
None == <<>>

Some(x) == <<x>>

\* Code points of the characters of the strings the program sorts (Python
\* compares str by code point).
Ord ==
  [c \in {"/", "1", "2", "3", "4", "5", "a", "b", "c", "d"} |->
     CASE c = "/" -> 47
       [] c = "1" -> 49 [] c = "2" -> 50 [] c = "3" -> 51 [] c = "4" -> 52
       [] c = "5" -> 53
       [] c = "a" -> 97 [] c = "b" -> 98 [] c = "c" -> 99 [] c = "d" -> 100]

\* str < str: lexicographic by code point, a proper prefix is smaller.
RECURSIVE StrLess(_, _)
StrLess(s, t) ==
  IF s = <<>> THEN t # <<>>
  ELSE IF t = <<>> THEN FALSE
  ELSE IF Head(s) = Head(t) THEN StrLess(Tail(s), Tail(t))
  ELSE Ord[Head(s)] < Ord[Head(t)]

\* Insert x into the ascending sequence seq, after every element that is not
\* greater (a stable sort).
RECURSIVE SortedInsert(_, _)
SortedInsert(seq, x) ==
  IF seq = <<>> THEN <<x>>
  ELSE IF StrLess(x, Head(seq)) THEN <<x>> \o seq
  ELSE <<Head(seq)>> \o SortedInsert(Tail(seq), x)

\* sorted that leaves the list as it is.
Sorted_Unsorted(seq) == seq

\* sorted(list of str)
RECURSIVE Sorted(_)
Sorted(seq) ==
  IF seq = <<>> THEN <<>>
  ELSE SortedInsert(Sorted(SubSeq(seq, 1, Len(seq) - 1)), seq[Len(seq)])

\* str.startswith(prefix)
StartsWith(s, prefix) ==
  /\ Len(prefix) <= Len(s)
  /\ SubSeq(s, 1, Len(prefix)) = prefix

\* The elements of a sequence, as a set.
Range(seq) == {seq[i] : i \in 1..Len(seq)}

\* The whitespace str.strip() removes and \S does not match.
Whitespace == {" ", "\t", "\n"}

\* str.strip()
RECURSIVE LStrip(_)
LStrip(s) ==
  IF s # <<>> /\ Head(s) \in Whitespace THEN LStrip(Tail(s)) ELSE s

RECURSIVE RStrip(_)
RStrip(s) ==
  IF s # <<>> /\ s[Len(s)] \in Whitespace
  THEN RStrip(SubSeq(s, 1, Len(s) - 1))
  ELSE s

Strip(s) == RStrip(LStrip(s))

\* Concatenation of a sequence of sequences.
RECURSIVE Flatten(_)
Flatten(seqs) ==
  IF seqs = <<>> THEN <<>> ELSE Head(seqs) \o Flatten(Tail(seqs))

(***************************************************************************)
(* CheckStatus and the classification of the status check rollup.          *)
(***************************************************************************)
CheckStatus == {"SUCCESS", "FAILED", "MISSING", "PENDING"}

check_status_descriptions ==
  [s \in CheckStatus |->
     CASE s = "SUCCESS" -> "passed"
       [] s = "FAILED" -> "failed"
       [] s = "MISSING" -> "missing"
       [] s = "PENDING" -> "pending"]

\* ClassifyRollup without the branch for the states it does not know:
\* they fall through to MISSING.
ClassifyRollup_UnknownMissing(rollup_state) ==
  IF rollup_state = Some("SUCCESS") THEN "SUCCESS"
  ELSE IF rollup_state = Some("PENDING") \/ rollup_state = Some("EXPECTED")
    THEN "PENDING"
  ELSE IF rollup_state = Some("ERROR") \/ rollup_state = Some("FAILURE")
    THEN "FAILED"
  ELSE "MISSING"

\* The if/elif chain of fetch_dependency_prs over rollup_state
\* (Optional[str]).
ClassifyRollup(rollup_state) ==
  IF rollup_state = Some("SUCCESS") THEN "SUCCESS"
  ELSE IF rollup_state = Some("PENDING") \/ rollup_state = Some("EXPECTED")
    THEN "PENDING"
  ELSE IF rollup_state = Some("ERROR") \/ rollup_state = Some("FAILURE")
    THEN "FAILED"
  ELSE IF rollup_state # None THEN "FAILED"
  ELSE "MISSING"

\* The rollup states a search result node may carry: no rollup at all, the
\* five values of GitHub's StatusState, and two values the program does not
\* know.
RollupStates ==
  {None, Some("SUCCESS"), Some("PENDING"), Some("EXPECTED"), Some("ERROR"),
   Some("FAILURE"), Some("NEUTRAL"), Some("success")}

(***************************************************************************)
(* The search result.  The node at position id comes from the repository   *)
(* Repos[id] and has id as its id; its title, body, branch and review      *)
(* decision are those of one of a few kinds of Dependabot PR, and its      *)
(* rollup state is one of RollupStates.  The title and body are given by   *)
(* what parse_dependabot_pr makes of them.                                 *)
(***************************************************************************)
\* max_lines of the review action
max_lines == 35

\* Text of n lines, "line 1" to "line n", with "\n" between them.
RECURSIVE NotesOfLines(_)
NotesOfLines(n) ==
  IF n = 1 THEN <<"line 1">>
  ELSE NotesOfLines(n - 1) \o <<"\n", "line " \o ToString(n)>>

DependencyUpdate(name, from_version, to_version, notes) ==
  [name |-> name, from_version |-> from_version, to_version |-> to_version,
   notes |-> notes]

\* DependencyUpdateDetails, or the ValueError parse_dependabot_pr raises.
DependencyUpdateDetails(group_name, is_group, updates) ==
  [raises |-> "", group_name |-> group_name, is_group |-> is_group,
   updates |-> updates]

ValueError(msg) ==
  [raises |-> msg, group_name |-> <<>>, is_group |-> FALSE, updates |-> <<>>]

(***************************************************************************)
(* parse_dependabot_pr.  A str is a sequence of pieces: the words and       *)
(* separators the patterns tell apart are one piece each, names and         *)
(* versions are sequences of one-character pieces.  A pattern is a sequence *)
(* of literal pieces and of the classes below.  The body is the tree        *)
(* BeautifulSoup makes of the HTML: a sequence of elements with a name      *)
(* ("" for a NavigableString), a string and children.                       *)
(***************************************************************************)
\* A match that does not fold the case.
LowerPiece_Identity(c) == c

\* str.lower() of a piece, for re.IGNORECASE.
LowerPiece(c) ==
  CASE c \in {"Bump", "BUMP"} -> "bump"
    [] c \in {"Bumps", "BUMPS"} -> "bumps"
    [] c \in {"Updates", "UPDATES"} -> "updates"
    [] c \in {"From", "FROM"} -> "from"
    [] c \in {"To", "TO"} -> "to"
    [] c \in {"The", "THE"} -> "the"
    [] c \in {"Group", "GROUP"} -> "group"
    [] c \in {"With", "WITH"} -> "with"
    [] c \in {"Update:", "UPDATE:"} -> "update:"
    [] OTHER -> c

\* The classes of the patterns: (\S+), \S+ and (.*)
NonSpaceGroup == "(\\S+)"

NonSpace == "\\S+"

AnyGroup == "(.*)"

\* Whether the piece c is in the class.
InClass(class, c) ==
  IF class = AnyGroup THEN c # "\n" ELSE c \notin Whitespace

\* The number of pieces of string from position si on that are in the class.
RECURSIVE RunLen(_, _, _)
RunLen(class, string, si) ==
  IF si <= Len(string) /\ InClass(class, string[si])
  THEN 1 + RunLen(class, string, si + 1)
  ELSE 0

\* The match of pattern from its item pi on at position si of string: None,
\* or the groups of the match.  A class takes the longest run that lets the
\* rest of the pattern match.
RECURSIVE re_match_from(_, _, _, _, _)
RECURSIVE re_match_run(_, _, _, _, _, _)
re_match_from(pattern, string, pi, si, ignorecase) ==
  IF pi > Len(pattern) THEN Some(<<>>)
  ELSE IF pattern[pi] \in {NonSpaceGroup, NonSpace, AnyGroup}
  THEN re_match_run(pattern, string, pi, si,
                    RunLen(pattern[pi], string, si), ignorecase)
  ELSE IF /\ si <= Len(string)
          /\ IF ignorecase
             THEN LowerPiece(string[si]) = LowerPiece(pattern[pi])
             ELSE string[si] = pattern[pi]
  THEN re_match_from(pattern, string, pi + 1, si + 1, ignorecase)
  ELSE None

re_match_run(pattern, string, pi, si, n, ignorecase) ==
  IF n < (IF pattern[pi] = AnyGroup THEN 0 ELSE 1) THEN None
  ELSE LET rest == re_match_from(pattern, string, pi + 1, si + n, ignorecase)
       IN IF rest # None
          THEN Some((IF pattern[pi] = NonSpace THEN <<>>
                     ELSE <<SubSeq(string, si, si + n - 1)>>) \o rest[1])
          ELSE re_match_run(pattern, string, pi, si, n - 1, ignorecase)

\* re.match: the groups of the match at the start of string, or None.
re_match(pattern, string, ignorecase) ==
  re_match_from(pattern, string, 1, 1, ignorecase)

\* re.search: the groups of the leftmost match, or None.
re_search_from(pattern, string, si, ignorecase) ==
  LET found == {k \in si..(Len(string) + 1) :
                  re_match_from(pattern, string, 1, k, ignorecase) # None}
  IN IF found = {} THEN None
     ELSE re_match_from(pattern, string, 1,
                        CHOOSE k \in found : \A m \in found : k <= m,
                        ignorecase)

re_search(pattern, string, ignorecase) ==
  re_search_from(pattern, string, 1, ignorecase)

title_re ==
  <<"Bump", " ", NonSpaceGroup, " ", "from", " ", NonSpaceGroup, " ", "to",
    " ", NonSpaceGroup>>

group_title_re == <<"Bump", " ", "the", " ", NonSpaceGroup, " ", "group">>

\* r"Bump (.*)"
fallback_title_re == <<"Bump", " ", AnyGroup>>

update_heading_pat ==
  <<"Updates", " ", NonSpaceGroup, " ", "from", " ", NonSpaceGroup, " ",
    "to", " ", NonSpaceGroup>>

single_update_pat ==
  <<"Bumps", " ", "the", " ", NonSpace, " ", "group", " ", "with", " ", "1",
    " ", "update:", " ", NonSpaceGroup>>

\* An element of the tree.
Tag(name, string, children) ==
  [name |-> name, string |-> string, children |-> children]

\* get_text(): the strings of the element and of what it holds.
get_text(el) ==
  IF el.children = <<>> THEN el.string
  ELSE Flatten([i \in 1..Len(el.children) |-> el.children[i].string])

\* soup.find_all(name), in document order, as paths: <<i>> is the i-th
\* element of the body and <<i, j>> the j-th child of it.
RECURSIVE find_all_from(_, _, _)
find_all_from(soup, name, i) ==
  IF i > Len(soup) THEN <<>>
  ELSE (IF soup[i].name = name THEN << <<i>> >> ELSE <<>>)
         \o LET Named(j) == soup[i].children[j].name = name
                inner == SelectSeq([j \in 1..Len(soup[i].children) |-> j],
                                   Named)
            IN [k \in 1..Len(inner) |-> <<i, inner[k]>>]
         \o find_all_from(soup, name, i + 1)

find_all(soup, name) == find_all_from(soup, name, 1)

\* The element at a path, and the list of elements it is in.
ElementAt(soup, path) ==
  IF Len(path) = 1 THEN soup[path[1]]
  ELSE soup[path[1]].children[path[2]]

SiblingsOf(soup, path) ==
  IF Len(path) = 1 THEN soup ELSE soup[path[1]].children

\* "\n\n".join(list of str)
RECURSIVE JoinBlankLine(_)
JoinBlankLine(strs) ==
  IF strs = <<>> THEN <<>>
  ELSE IF Len(strs) = 1 THEN strs[1]
  ELSE strs[1] \o <<"\n", "\n">> \o JoinBlankLine(Tail(strs))

contains_update_heading(el) ==
  re_search(update_heading_pat, get_text(el), FALSE) # None

\* The while loop from curr = siblings[k] on: the texts of the details
\* elements up to the next element that holds an update heading or is an hr.
RECURSIVE GatherNotes(_, _)
GatherNotes(siblings, k) ==
  IF k > Len(siblings) THEN <<>>
  ELSE IF contains_update_heading(siblings[k]) \/ siblings[k].name = "hr"
  THEN <<>>
  ELSE (IF siblings[k].name = "details" THEN <<get_text(siblings[k])>>
        ELSE <<>>) \o GatherNotes(siblings, k + 1)

\* The single update of a group with only its from_version cleared: the
\* to_version is left as the name.
UpdateOfHeading_KeepsToVersion(soup, heading) ==
  LET text == get_text(ElementAt(soup, heading))
      fields_match == re_search(update_heading_pat, text, TRUE)
      single_match == re_search(single_update_pat, text, TRUE)
      notes == GatherNotes(SiblingsOf(soup, heading),
                           heading[Len(heading)] + 1)
  IN IF fields_match # None
     THEN DependencyUpdate(fields_match[1][1], Some(fields_match[1][2]),
                           Some(fields_match[1][3]), JoinBlankLine(notes))
     ELSE DependencyUpdate(single_match[1][1], None,
                           Some(single_match[1][1]), JoinBlankLine(notes))

\* Every update read from the first heading of the body.
UpdateOfHeading_FirstHeading(soup, heading) ==
  LET IsUpdateHeading(path) == contains_update_heading(ElementAt(soup, path))
      first == SelectSeq(find_all(soup, "p"), IsUpdateHeading)
      text == get_text(ElementAt(soup, IF first = <<>> THEN heading
                                       ELSE first[1]))
      fields_match == re_search(update_heading_pat, text, TRUE)
      single_match == re_search(single_update_pat, text, TRUE)
      notes == GatherNotes(SiblingsOf(soup, heading),
                           heading[Len(heading)] + 1)
  IN IF fields_match # None
     THEN DependencyUpdate(fields_match[1][1], Some(fields_match[1][2]),
                           Some(fields_match[1][3]), JoinBlankLine(notes))
     ELSE DependencyUpdate(single_match[1][1], None, None,
                           JoinBlankLine(notes))

\* The body of "for heading in headings".
UpdateOfHeading(soup, heading) ==
  LET text == get_text(ElementAt(soup, heading))
      fields_match == re_search(update_heading_pat, text, TRUE)
      single_match == re_search(single_update_pat, text, TRUE)
      notes == GatherNotes(SiblingsOf(soup, heading),
                           heading[Len(heading)] + 1)
  IN IF fields_match # None
     THEN DependencyUpdate(fields_match[1][1], Some(fields_match[1][2]),
                           Some(fields_match[1][3]), JoinBlankLine(notes))
     ELSE DependencyUpdate(single_match[1][1], None, None,
                           JoinBlankLine(notes))

\* The details of the single-dependency path: the text of every details
\* element but those that start with the commands heading.
SingleDetails(soup) ==
  LET all == find_all(soup, "details")
      texts == [i \in 1..Len(all) |-> get_text(ElementAt(soup, all[i]))]
      Kept(text) ==
        ~StartsWith(Strip(text), <<"Dependabot commands and options">>)
  IN SelectSeq(texts, Kept)

\* The headings without the case of a single update.
Headings_NoFallback(soup) ==
  LET IsUpdateHeading(path) == contains_update_heading(ElementAt(soup, path))
  IN SelectSeq(find_all(soup, "p"), IsUpdateHeading)

\* The headings of the group path.
Headings(soup) ==
  LET paragraphs == find_all(soup, "p")
      IsUpdateHeading(path) == contains_update_heading(ElementAt(soup, path))
      IsSingleUpdate(path) ==
        re_match(single_update_pat, get_text(ElementAt(soup, path)), FALSE)
          # None
      headings == SelectSeq(paragraphs, IsUpdateHeading)
  IN IF headings # <<>> THEN headings
     ELSE SelectSeq(paragraphs, IsSingleUpdate)

parse_dependabot_pr(title, soup) ==
  LET fields_match == re_search(title_re, title, TRUE)
      named == re_search(group_title_re, title, TRUE)
      group_title_match ==
        IF named # None THEN named
        ELSE re_search(fallback_title_re, title, TRUE)
      headings == Headings(soup)
  IN IF fields_match # None
     THEN DependencyUpdateDetails(fields_match[1][1], FALSE,
            << DependencyUpdate(fields_match[1][1], Some(fields_match[1][2]),
                                Some(fields_match[1][3]),
                                JoinBlankLine(SingleDetails(soup))) >>)
     ELSE IF group_title_match = None
     THEN ValueError("PR title does not match known patterns")
     ELSE IF headings = <<>>
     THEN ValueError("Package names not found in PR body")
     ELSE DependencyUpdateDetails(group_title_match[1][1], TRUE,
            [h \in 1..Len(headings) |-> UpdateOfHeading(soup, headings[h])])

\* A paragraph, a details element with only text, a NavigableString, the
\* hr before the commands, and the details element of the commands.
P(string) == Tag("p", string, <<>>)

Details(string) == Tag("details", string, <<>>)

Text(string) == Tag("", string, <<>>)

Hr == Tag("hr", <<>>, <<>>)

Commands ==
  Tag("details", <<>>,
      << Text(<<"\n">>),
         Tag("summary", <<"Dependabot commands and options">>, <<>>),
         Text(<<"\n", "text">>) >>)

\* "Bump ab from 1 to 2", a pip package
BumpSingle ==
  [reviewDecision |-> "APPROVED",
   headRefName |-> <<"dependabot", "pip", "ab-2">>,
   title |-> <<"Bump", " ", "a", "b", " ", "from", " ", "1", " ", "to", " ",
               "2">>,
   bodyHTML |->
     << P(<<"Bumps", " ", "a", "b", " ", "from", " ", "1", " ", "to", " ",
            "2", ".">>),
        Details(NotesOfLines(max_lines)), Text(<<"\n">>), Hr, Commands >>]

\* "Bump ab from 1 to 2", an npm package
BumpSingleNpm ==
  [BumpSingle EXCEPT
     !.headRefName = <<"dependabot", "npm_and_yarn", "ab-2">>,
     !.bodyHTML = << @[1], Details(NotesOfLines(max_lines + 1)), Hr,
                     Commands >>]

\* "Bump the b group with 1 update", an npm package
BumpGroupOfOne ==
  [reviewDecision |-> "REVIEW_REQUIRED",
   headRefName |-> <<"dependabot", "npm_and_yarn", "b-1">>,
   title |-> <<"Bump", " ", "the", " ", "b", " ", "group", " ", "with", " ",
               "1", " ", "update">>,
   bodyHTML |->
     << P(<<"Bumps", " ", "the", " ", "b", " ", "group", " ", "with", " ",
            "1", " ", "update:", " ", "x">>),
        Details(NotesOfLines(1)), Hr, Commands >>]

\* "Bump the c group with 2 updates", npm packages
BumpGroupOfTwo ==
  [reviewDecision |-> "APPROVED",
   headRefName |-> <<"dependabot", "npm_and_yarn", "c-2">>,
   title |-> <<"Bump", " ", "the", " ", "c", " ", "group", " ", "with", " ",
               "2", " ", "updates">>,
   bodyHTML |->
     << P(<<"Bumps", " ", "the", " ", "c", " ", "group", " ", "with", " ",
            "2", " ", "updates:">>),
        P(<<"Updates", " ", "x", " ", "from", " ", "1", " ", "to", " ",
            "3">>),
        Details(NotesOfLines(max_lines - 1)),
        P(<<"Updates", " ", "p", " ", "from", " ", "2", " ", "to", " ",
            "3">>),
        Details(NotesOfLines(2)), Hr, Commands >>]

\* A title that matches no known pattern.
UnknownTitle ==
  [reviewDecision |-> "APPROVED",
   headRefName |-> <<"dependabot", "pip", "x-2">>,
   title |-> <<"Update", " ", "x", " ", "to", " ", "2">>,
   bodyHTML |-> << Details(NotesOfLines(1)), Hr, Commands >>]

\* A branch that is not a Dependabot branch.
ForeignBranch ==
  [reviewDecision |-> "APPROVED",
   headRefName |-> <<"feature", "x">>,
   title |-> <<"Bump", " ", "x", " ", "from", " ", "1", " ", "to", " ",
               "2">>,
   bodyHTML |-> << Details(NotesOfLines(1)), Hr, Commands >>]

\* The nodes a search may return, as pairs of a kind and a rollup state:
\* every kind that parses comes with a passing rollup and with others, and
\* every rollup state of RollupStates comes with some kind.
SearchNodes ==
  ({BumpSingle} \X {None, Some("SUCCESS"), Some("PENDING")})
  \cup ({BumpSingleNpm} \X {Some("NEUTRAL")})
  \cup ({BumpGroupOfOne}
     \X {Some("SUCCESS"), Some("FAILURE"), Some("EXPECTED")})
  \cup ({BumpGroupOfTwo}
     \X {Some("SUCCESS"), Some("ERROR"), Some("success")})
  \cup ({UnknownTitle} \X {Some("SUCCESS")})
  \cup ({ForeignBranch} \X {None})

\* parse_dependabot_pr(pr["title"], pr["bodyHTML"]) for each kind of
\* SearchNodes, computed once.
ParsedDetails ==
  [kind \in {node[1] : node \in SearchNodes} |->
     parse_dependabot_pr(kind.title, kind.bodyHTML)]

\* The repositories of the search result, by position.
Repos ==
  << [name |-> <<"c">>, viewerDefaultMergeMethod |-> "SQUASH"],
     [name |-> <<"a">>, viewerDefaultMergeMethod |-> "MERGE"],
     [name |-> <<"b", "a">>, viewerDefaultMergeMethod |-> "REBASE"],
     [name |-> <<"a", "b">>, viewerDefaultMergeMethod |-> "SQUASH"],
     [name |-> <<"d">>, viewerDefaultMergeMethod |-> "MERGE"] >>

Digit == <<"1", "2", "3", "4", "5">>

\* The url of the PR at position id of the search result.
UrlOf(id) == Repos[id].name \o <<"/", Digit[id]>>

\* parse_package_type_from_branch_name on a branch name split at "/":
\* the package type, or None where the function raises ValueError.
parse_package_type_from_branch_name(branch) ==
  IF Len(branch) >= 3 /\ branch[1] = "dependabot" /\ branch[2] # ""
  THEN Some(branch[2])
  ELSE None

\* sub in s, for str
Contains(s, sub) ==
  \E i \in 0..(Len(s) - Len(sub)) : SubSeq(s, i + 1, i + Len(sub)) = sub

\* The command lines of the model: (--repo-filter, --type).
ArgsChoices ==
  { [repo_filter |-> None, type |-> None],
    [repo_filter |-> Some(<<"a">>), type |-> None],
    [repo_filter |-> None, type |-> Some("npm_and_yarn")] }

(***************************************************************************)
(* State.                                                                  *)
(***************************************************************************)
VARIABLES
  pc,                     \* where the program is: "fetch", "main", "read",
                          \* "merging", "done"; inside read_action:
                          \* "read_action", "prompt", "match", "return"
  args,                   \* the parsed command line
  diff_url,               \* what get_package_diff_url returned (Optional)
  stdout_isatty,          \* os.isatty(sys.stdout.fileno())
  stdin_isatty,           \* whether standard input is a terminal
  input_called,           \* whether input() has been called
  line,                   \* what input() returned last (Optional)
  user_input,             \* local of read_action (Optional)
  fetched,                \* number of search result nodes processed
  pr,                     \* loop variable of fetch_dependency_prs (Optional)
  update_details,         \* local of fetch_dependency_prs (Optional)
  rollup_state,           \* local of fetch_dependency_prs
  updates,                \* the list of DependencyUpdatePR
  updates_by_group_name,  \* local of main
  groups,                 \* local of main
  gi,                     \* position of main's loop in groups
  to_review,              \* local of main
  action,                 \* local of review_updates
  mi,                     \* position of the merge loop in prs
  mergeCalls,             \* the mergePullRequest mutations sent so far
  effect,                 \* what the last step wrote or opened
  exc,                    \* the exception that ended the run, if any
  exit_code               \* main's return value (Optional)

vars ==
  <<pc, args, diff_url, stdout_isatty, stdin_isatty, line, user_input, input_called, fetched,
    rollup_state, pr, update_details, updates, updates_by_group_name, groups, gi, to_review,
    action, mi, mergeCalls, effect, exc, exit_code>>

\* Nothing written, lines printed to stdout or stderr, or a URL opened.
\* lines are in the order written; any_order are lines written in the
\* iteration order of a Python set, which the program does not control.
NoEffect == [kind |-> "none", lines |-> <<>>, any_order |-> {}]

Stdout(lines) == [kind |-> "print", lines |-> lines, any_order |-> {}]

StdoutSet(lines, any_order) ==
  [kind |-> "print", lines |-> lines, any_order |-> any_order]

Stderr(lines) == [kind |-> "stderr", lines |-> lines, any_order |-> {}]

\* open_url
open_url(url) == [kind |-> "open", lines |-> <<url>>, any_order |-> {}]

Init ==
  /\ pc = "fetch"
  /\ args = [repo_filter |-> None, type |-> None]
  /\ diff_url = None
  /\ stdout_isatty \in BOOLEAN
  /\ stdin_isatty = stdout_isatty
  /\ input_called = FALSE
  /\ line = None
  /\ user_input = None
  /\ fetched = 0
  /\ rollup_state = None
  /\ pr = None
  /\ update_details = None
  /\ updates = <<>>
  /\ updates_by_group_name = <<>>
  /\ groups = <<>>
  /\ gi = 0
  /\ to_review = 0
  /\ action = <<>>
  /\ mi = 0
  /\ mergeCalls = <<>>
  /\ effect = NoEffect
  /\ exc = ""
  /\ exit_code = None

(***************************************************************************)
(* fetch_dependency_prs: one iteration of the loop over the search result. *)
(***************************************************************************)
DependencyUpdatePR(kind, id, check_status, package_type) ==
  LET update_details_ == ParsedDetails[kind]
  IN [id |-> id,
      is_group |-> update_details_.is_group,
      group_name |-> update_details_.group_name,
      approved |-> (kind.reviewDecision = "APPROVED"),
      check_status |-> check_status,
      updates |-> update_details_.updates,
      merge_method |-> Repos[id].viewerDefaultMergeMethod,
      package_type |-> package_type,
      url |-> UrlOf(id)]

\* FetchNode without the try/except ValueError: a PR that fails to parse
\* ends the run.
FetchNode_Uncaught(kind, rollup) ==
  /\ pc = "fetch"
  /\ fetched < MaxNodes
  /\ fetched' = fetched + 1
  /\ pr' = Some(<<kind, rollup>>)
  /\ LET id == fetched + 1
         parsed == ParsedDetails[kind]
         package_type == parse_package_type_from_branch_name(kind.headRefName)
     IN
       IF args.repo_filter # None /\ ~Contains(Repos[id].name, args.repo_filter[1])
       THEN /\ UNCHANGED <<updates, rollup_state, update_details, pc, exc,
                           exit_code>>
            /\ effect' = NoEffect
       ELSE IF parsed.raises # "" \/ package_type = None
       THEN /\ UNCHANGED <<updates, rollup_state>>
            /\ update_details' =
                 (IF parsed.raises # "" THEN update_details ELSE Some(parsed))
            /\ effect' = NoEffect
            /\ pc' = "done"
            /\ exc' = "ValueError"
            /\ exit_code' = Some(1)
       ELSE /\ rollup_state' = rollup
            /\ update_details' = Some(parsed)
            /\ updates' = Append(updates,
                 DependencyUpdatePR(kind, id, ClassifyRollup(rollup),
                                    package_type[1]))
            /\ effect' = NoEffect
            /\ UNCHANGED <<pc, exc, exit_code>>
  /\ UNCHANGED <<args, diff_url, stdout_isatty, stdin_isatty, line, user_input,
                 input_called, updates_by_group_name, groups, gi, to_review,
                 action, mi, mergeCalls>>

\* One iteration: the repo filter, the two parsers inside try/except
\* ValueError, the classification of the rollup and the append.
FetchNode(kind, rollup) ==
  /\ pc = "fetch"
  /\ fetched < MaxNodes
  /\ fetched' = fetched + 1
  /\ pr' = Some(<<kind, rollup>>)
  /\ LET id == fetched + 1
         parsed == ParsedDetails[kind]
         package_type == parse_package_type_from_branch_name(kind.headRefName)
     IN
       IF args.repo_filter # None /\ ~Contains(Repos[id].name, args.repo_filter[1])
       THEN /\ UNCHANGED <<updates, rollup_state, update_details>>
            /\ effect' = NoEffect
       ELSE IF parsed.raises # ""
       THEN /\ UNCHANGED <<updates, rollup_state, update_details>>
            /\ effect' = Stderr(<< <<"Failed to parse details from">>
                                     \o UrlOf(id)
                                     \o <<parsed.raises>> >>)
       ELSE IF package_type = None
       THEN /\ UNCHANGED <<updates, rollup_state>>
            /\ update_details' = Some(parsed)
            /\ effect' = Stderr(<< <<"Failed to parse details from">>
                                     \o UrlOf(id)
                                     \o <<"Failed to parse branch name">> >>)
       ELSE /\ rollup_state' = rollup
            /\ update_details' = Some(parsed)
            /\ updates' = Append(updates,
                 DependencyUpdatePR(kind, id, ClassifyRollup(rollup),
                                    package_type[1]))
            /\ effect' = NoEffect
  /\ UNCHANGED <<pc, args, diff_url, stdout_isatty, stdin_isatty, line, user_input, input_called,
                 updates_by_group_name, groups, gi, to_review, action, mi,
                 mergeCalls, exc, exit_code>>

FetchStep == \E node \in SearchNodes : FetchNode(node[1], node[2])

\* gh.query raises (transport or API error): nothing catches it.
FetchError ==
  /\ pc = "fetch"
  /\ fetched = 0
  /\ pc' = "done"
  /\ exc' = "Exception"
  /\ exit_code' = Some(1)
  /\ effect' = NoEffect
  /\ UNCHANGED <<args, diff_url, stdout_isatty, stdin_isatty, line, user_input, input_called, fetched,
                 rollup_state, pr, update_details, updates, updates_by_group_name, groups, gi,
                 to_review, action, mi, mergeCalls>>

(***************************************************************************)
(* main, after the fetch: the --type filter, the grouping and the sort.    *)
(***************************************************************************)
\* [u for u in updates if u.package_type == args.type]
FilterByType(prs, type) ==
  IF type # None
  THEN LET Keep(u) == u.package_type = type[1] IN SelectSeq(prs, Keep)
  ELSE prs

\* The loop that fills updates_by_group_name: the keys in order of first
\* appearance, and for each key the list of its PRs.
RECURSIVE GroupKeys(_)
GroupKeys(prs) ==
  IF prs = <<>> THEN <<>>
  ELSE LET before == GroupKeys(SubSeq(prs, 1, Len(prs) - 1))
           name == prs[Len(prs)].group_name
       IN IF name \in Range(before) THEN before ELSE Append(before, name)

RECURSIVE GroupUpdates(_)
GroupUpdates(prs) ==
  IF prs = <<>> THEN <<>>
  ELSE LET before == GroupUpdates(SubSeq(prs, 1, Len(prs) - 1))
           update == prs[Len(prs)]
           with_key ==
             IF update.group_name \in DOMAIN before THEN before
             ELSE [g \in DOMAIN before \cup {update.group_name} |->
                     IF g \in DOMAIN before THEN before[g] ELSE <<>>]
       IN [with_key EXCEPT ![update.group_name] = Append(@, update)]

Str(n) == <<"0", "1", "2", "3", "4", "5">>[n + 1]

FetchReturn ==
  /\ pc = "fetch"
  /\ LET filtered == FilterByType(updates, args.type)
         by_name == GroupUpdates(filtered)
     IN /\ updates' = filtered
        /\ updates_by_group_name' = by_name
        /\ groups' = Sorted(GroupKeys(filtered))
        /\ to_review' = Len(filtered)
        /\ effect' = Stdout(<< <<"Found", Str(Len(filtered)), "PRs for",
                                Str(Len(GroupKeys(filtered))), "dependencies">>,
                              <<>> >>)
  /\ rollup_state' = None
  /\ pr' = None
  /\ update_details' = None
  /\ gi' = 1
  /\ pc' = "main"
  /\ UNCHANGED <<args, diff_url, stdout_isatty, stdin_isatty, line, user_input, input_called, fetched,
                 action, mi, mergeCalls, exc, exit_code>>

(***************************************************************************)
(* read_action.                                                            *)
(***************************************************************************)
Diff == <<"d", "i", "f", "f">>

Merge == <<"m", "e", "r", "g", "e">>

Skip == <<"s", "k", "i", "p">>

Quit == <<"q", "u", "i", "t">>

Review == <<"r", "e", "v", "i", "e", "w">>

List == <<"l", "i", "s", "t">>

View == <<"v", "i", "e", "w">>

\* The actions list review_updates passes to read_action.
ReviewActions == <<Diff, Merge, Skip, Quit, Review, List, View>>

\* merge as the default.
ReviewDefault_Merge == Some(Merge)

\* The default review_updates passes to read_action.
ReviewDefault == Some(Skip)

UpperCase ==
  {"D", "E", "F", "G", "I", "K", "L", "M", "P", "Q", "R", "S", "T", "U",
   "V", "W", "X"}

LowerChar(c) ==
  CASE c = "D" -> "d" [] c = "E" -> "e" [] c = "F" -> "f" [] c = "G" -> "g"
    [] c = "I" -> "i" [] c = "K" -> "k" [] c = "L" -> "l" [] c = "M" -> "m"
    [] c = "P" -> "p" [] c = "Q" -> "q" [] c = "R" -> "r" [] c = "S" -> "s"
    [] c = "T" -> "t" [] c = "U" -> "u" [] c = "V" -> "v" [] c = "W" -> "w"
    [] c = "X" -> "x"
    [] OTHER -> c

\* str.lower()
Lower(s) == [i \in 1..Len(s) |-> LowerChar(s[i])]

\* "for action in actions: if action == user_input: return action": the
\* position of the action returned, or 0 when the loop ends without one.
\* (token is the value of user_input)
RECURSIVE ExactMatch(_, _, _)
ExactMatch(actions, from, token) ==
  IF from > Len(actions) THEN 0
  ELSE IF actions[from] = token THEN from
  ELSE ExactMatch(actions, from + 1, token)

\* PrefixMatch that keeps the last action that matches, not the first.
RECURSIVE PrefixMatch_Last(_, _, _)
PrefixMatch_Last(actions, from, token) ==
  IF from > Len(actions) THEN 0
  ELSE IF PrefixMatch_Last(actions, from + 1, token) # 0
  THEN PrefixMatch_Last(actions, from + 1, token)
  ELSE IF StartsWith(actions[from], token) THEN from
  ELSE 0

\* "for action in actions: if action.startswith(user_input): return action"
RECURSIVE PrefixMatch(_, _, _)
PrefixMatch(actions, from, token) ==
  IF from > Len(actions) THEN 0
  ELSE IF StartsWith(actions[from], token) THEN from
  ELSE PrefixMatch(actions, from + 1, token)

\* One pass of read_action's while loop after input() returned: the position
\* in actions of the action returned, or 0 when the loop goes round again.
ReadActionMatch(actions, token) ==
  IF ExactMatch(actions, 1, token) # 0
  THEN ExactMatch(actions, 1, token)
  ELSE PrefixMatch(actions, 1, token)

\* The branch read_action takes before it reads anything.
TakesDefault(isatty, default) == ~isatty /\ default # None /\ default[1] # <<>>

\* The lines the user may type.
Prefixes(w) == {SubSeq(w, 1, n) : n \in 0..Len(w)}

UpperChar(c) ==
  IF \E u \in UpperCase : LowerChar(u) = c
  THEN CHOOSE u \in UpperCase : LowerChar(u) = c
  ELSE c

Upper(s) == [i \in 1..Len(s) |-> UpperChar(s[i])]

Typed ==
  UNION {Prefixes(a) : a \in Range(ReviewActions)}
    \cup {<<"x">>, <<"e">>, <<"m", "x">>, Merge \o <<"s">>, <<"i", "f", "f">>}

RawInputs ==
  Typed
    \cup {Upper(w) : w \in Typed}
    \cup {<<UpperChar(Head(a))>> \o Tail(a) : a \in Range(ReviewActions)}
    \cup {<<" ">> \o w \o <<" ", "\n">> : w \in Typed}
    \cup {<<"\t">> \o Upper(w) : w \in Typed}

\* What the user's lines become: input(...).strip().lower()
UserInputs == {Lower(Strip(raw)) : raw \in RawInputs}

\* The actions read_action returns to review_updates when it prompts.
Prompted ==
  {ReviewActions[ReadActionMatch(ReviewActions, token)] :
     token \in {u \in UserInputs : ReadActionMatch(ReviewActions, u) # 0}}

\* The lines after which read_action prompts again.
Unmatched == {u \in UserInputs : ReadActionMatch(ReviewActions, u) = 0}

\* The actions read_action can return to review_updates, given what the
\* terminal is.
Returnable(isatty) ==
  IF TakesDefault(isatty, ReviewDefault) THEN {ReviewDefault[1]} ELSE Prompted

(***************************************************************************)
(* Helpers of review_updates.                                              *)
(***************************************************************************)
\* Truth value of an Optional[str]: None and "" are false.
Truthy(opt) == opt # None /\ opt[1] # <<>>

\* A diff URL for every package type.
get_package_diff_url_AnyType(package_type, update) ==
  IF ~Truthy(update.from_version) \/ ~Truthy(update.to_version) THEN None
  ELSE Some(<<"https://diff.intrinsic.com/">> \o update.name \o <<"/">>
              \o update.from_version[1] \o <<"/">> \o update.to_version[1])

\* get_package_diff_url: Optional[str]
get_package_diff_url(package_type, update) ==
  IF ~Truthy(update.from_version) \/ ~Truthy(update.to_version) THEN None
  ELSE IF package_type = "npm_and_yarn"
  THEN Some(<<"https://diff.intrinsic.com/">> \o update.name \o <<"/">>
              \o update.from_version[1] \o <<"/">> \o update.to_version[1])
  ELSE None

\* str.splitlines(), the text from position i on, cur being the line so far.
RECURSIVE SplitLinesFrom(_, _, _)
SplitLinesFrom(text, i, cur) ==
  IF i > Len(text) THEN (IF cur = <<>> THEN <<>> ELSE <<cur>>)
  ELSE IF text[i] = "\n" THEN <<cur>> \o SplitLinesFrom(text, i + 1, <<>>)
  ELSE SplitLinesFrom(text, i + 1, Append(cur, text[i]))

SplitLines(text) == SplitLinesFrom(text, 1, <<>>)

\* The review action over the notes of every PR of the group.
ReviewNotes_AllPrs(prs) ==
  LET notes == Flatten([i \in 1..Len(prs) |->
                  Flatten([j \in 1..Len(prs[i].updates) |->
                             SplitLines(prs[i].updates[j].notes)])])
  IN IF Len(notes) > max_lines
     THEN Append(SubSeq(notes, 1, max_lines),
                 <<"... (Enter \"view\" to see full notes in browser)">>)
     ELSE notes

\* The lines the review action prints (before the indentation).
ReviewNotes(prs) ==
  LET notes == Flatten([i \in 1..Len(prs[1].updates) |->
                          SplitLines(prs[1].updates[i].notes)])
  IN IF Len(notes) > max_lines
     THEN Append(SubSeq(notes, 1, max_lines),
                 <<"... (Enter \"view\" to see full notes in browser)">>)
     ELSE notes

Indent(lines) == [i \in 1..Len(lines) |-> <<"  ">> \o lines[i]]

\* The positions <<i, j>> of "for pr in prs: for u in pr.updates".
UpdateIndexes(prs) ==
  UNION {{<<i, j>> : j \in 1..Len(prs[i].updates)} : i \in 1..Len(prs)}

\* diff_urls of the diff action
DiffUrls(prs) ==
  {get_package_diff_url(prs[ij[1]].package_type,
                        prs[ij[1]].updates[ij[2]])[1] :
     ij \in {ij \in UpdateIndexes(prs) :
               get_package_diff_url(prs[ij[1]].package_type,
                                    prs[ij[1]].updates[ij[2]]) # None}}

\* version_bumps
VersionBumps(prs) ==
  {<<prs[ij[1]].updates[ij[2]].name, prs[ij[1]].updates[ij[2]].from_version,
     prs[ij[1]].updates[ij[2]].to_version>> : ij \in UpdateIndexes(prs)}

OrUnknown(opt) == IF Truthy(opt) THEN opt[1] ELSE <<"(unknown)">>

\* The keys of updates_by_status, in order of insertion.
RECURSIVE StatusKeys(_)
StatusKeys(prs) ==
  IF prs = <<>> THEN <<>>
  ELSE LET before == StatusKeys(SubSeq(prs, 1, Len(prs) - 1))
           status == prs[Len(prs)].check_status
       IN IF status \in Range(before) THEN before ELSE Append(before, status)

\* What main and review_updates print before the first prompt of a group:
\* the lines in their order, but for the lines of version_bumps, which come
\* after "Versions:" in the iteration order of the set.
Summary(group, prs) ==
  LET HasStatus(status) ==
        LET Is(u) == u.check_status = status IN SelectSeq(prs, Is)
      NotSuccess(u) == u.check_status # "SUCCESS"
      failing == SelectSeq(prs, NotSuccess)
      keys == StatusKeys(prs)
  IN StdoutSet(
       << <<Str(Len(prs)), "updates for",
            IF prs[1].is_group THEN "group" ELSE "dependency">> \o group,
          <<"Versions:">>,
          <<"Checks:">>
            \o Flatten([i \in 1..Len(keys) |->
                 <<Str(Len(HasStatus(keys[i]))),
                   check_status_descriptions[keys[i]]>>]) >>
       \o [i \in 1..Len(failing) |->
             <<"  ">> \o failing[i].url
               \o <<"checks",
                    check_status_descriptions[failing[i].check_status]>>],
       {<<"  ">> \o bump[1] \o <<" ">> \o OrUnknown(bump[2]) \o <<" -> ">>
          \o OrUnknown(bump[3]) : bump \in VersionBumps(prs)})

\* The variables of the mergePullRequest mutation merge_pr sends.
merge_pr(pr_id, merge_method) ==
  [pullRequestId |-> pr_id, mergeMethod |-> merge_method]

(***************************************************************************)
(* main's loop over the groups.                                            *)
(***************************************************************************)
\* The PRs of the group under review: main's updates, review_updates' prs.
prs == updates_by_group_name[groups[gi]]

\* The top of the loop with a group left: the summary of the group, then
\* review_updates reaches its first read_action.
NextGroup ==
  /\ pc = "main"
  /\ gi <= Len(groups)
  /\ effect' = Summary(groups[gi], prs)
  /\ pc' = "read"
  /\ UNCHANGED <<args, diff_url, stdout_isatty, stdin_isatty, line, user_input, input_called, fetched,
                 rollup_state, pr, update_details, updates, updates_by_group_name, groups, gi,
                 to_review, action, mi, mergeCalls, exc, exit_code>>

\* The loop is over: return 0.
MainReturn ==
  /\ pc = "main"
  /\ gi > Len(groups)
  /\ pc' = "done"
  /\ exit_code' = Some(0)
  /\ effect' = NoEffect
  /\ UNCHANGED <<args, diff_url, stdout_isatty, stdin_isatty, line, user_input, input_called, fetched,
                 rollup_state, pr, update_details, updates, updates_by_group_name, groups, gi,
                 to_review, action, mi, mergeCalls, exc>>

\* review_updates returns without an exception: main counts the group,
\* prints an empty line and goes to the next group.
SessionReturns ==
  /\ to_review' = to_review - Len(prs)
  /\ effect' = Stdout(<< <<>> >>)
  /\ gi' = gi + 1
  /\ pc' = "main"

(***************************************************************************)
(* review_updates: one pass of the while loop, from the call of            *)
(* read_action to the end of the branch taken.                             *)
(***************************************************************************)
\* read_action returns a to review_updates.
ReadReturns(a) ==
  /\ pc = "read"
  /\ a \in Returnable(stdout_isatty)
  /\ input_called' =
       (input_called \/ ~TakesDefault(stdout_isatty, ReviewDefault))
  /\ action' = a

\* A line that matches no action: read_action prompts again.
ReadRetry ==
  /\ pc = "read"
  /\ ~TakesDefault(stdout_isatty, ReviewDefault)
  /\ Unmatched # {}
  /\ input_called' = TRUE
  /\ UNCHANGED <<pc, args, diff_url, stdout_isatty, stdin_isatty, line, user_input, fetched,
                 rollup_state, pr, update_details, updates, updates_by_group_name, groups, gi,
                 to_review, action, mi, mergeCalls, effect, exc, exit_code>>

\* ReadAbort with the exception caught inside the loop body: main goes on
\* with the next group.
ReadAbort_NextGroup ==
  /\ pc = "read"
  /\ ~TakesDefault(stdout_isatty, ReviewDefault)
  /\ exc' = "PromptAbortError"
  /\ input_called' = TRUE
  /\ SessionReturns
  /\ UNCHANGED <<args, diff_url, stdout_isatty, stdin_isatty, line, user_input,
                 fetched, rollup_state, pr, update_details, updates, updates_by_group_name,
                 groups, action, mi, mergeCalls, exit_code>>

\* input() raises EOFError or KeyboardInterrupt: read_action raises
\* PromptAbortError, which main catches to return 0.
ReadAbort ==
  /\ pc = "read"
  /\ ~TakesDefault(stdout_isatty, ReviewDefault)
  /\ \E raised \in {"EOFError", "KeyboardInterrupt"} :
       exc' = "PromptAbortError"
  /\ input_called' = TRUE
  /\ pc' = "done"
  /\ exit_code' = Some(0)
  /\ effect' = NoEffect
  /\ UNCHANGED <<args, diff_url, stdout_isatty, stdin_isatty, line, user_input, fetched, rollup_state, pr, update_details,
                 updates, updates_by_group_name, groups, gi, to_review,
                 action, mi, mergeCalls>>

DoQuit ==
  /\ ReadReturns(Quit)
  /\ SessionReturns
  /\ UNCHANGED <<args, diff_url, stdout_isatty, stdin_isatty, line, user_input, fetched, rollup_state, pr, update_details,
                 updates, updates_by_group_name, groups, mi, mergeCalls,
                 exc, exit_code>>

\* DoSkip that falls into the merge branch.
DoSkip_Merges ==
  /\ ReadReturns(Skip)
  /\ pc' = "merging"
  /\ mi' = 1
  /\ effect' = NoEffect
  /\ UNCHANGED <<args, diff_url, stdout_isatty, stdin_isatty, line, user_input,
                 fetched, rollup_state, pr, update_details, updates, updates_by_group_name,
                 groups, gi, to_review, mergeCalls, exc, exit_code>>

DoSkip ==
  /\ ReadReturns(Skip)
  /\ SessionReturns
  /\ UNCHANGED <<args, diff_url, stdout_isatty, stdin_isatty, line, user_input, fetched, rollup_state, pr, update_details,
                 updates, updates_by_group_name, groups, mi, mergeCalls,
                 exc, exit_code>>

\* The merge action enters its loop over prs.
DoMerge ==
  /\ ReadReturns(Merge)
  /\ pc' = "merging"
  /\ mi' = 1
  /\ effect' = NoEffect
  /\ UNCHANGED <<args, diff_url, stdout_isatty, stdin_isatty, line, user_input, fetched, rollup_state, pr, update_details,
                 updates, updates_by_group_name, groups, gi, to_review,
                 mergeCalls, exc, exit_code>>

\* MergeStep without the try/except around merge_pr: the exception of
\* gh.query ends the run.
MergeStep_Uncaught ==
  /\ pc = "merging"
  /\ mi <= Len(prs)
  /\ LET update == prs[mi] IN
       IF update.check_status # "SUCCESS"
       THEN /\ mi' = mi + 1
            /\ effect' = NoEffect
            /\ UNCHANGED <<pc, mergeCalls, exc, exit_code>>
       ELSE \E raised \in BOOLEAN :
              /\ mergeCalls' =
                   Append(mergeCalls,
                          [input |-> merge_pr(update.id, update.merge_method),
                           raised |-> raised])
              /\ effect' =
                   Stdout(<< <<"Merging">> \o update.url \o <<"...">> >>)
              /\ IF raised
                 THEN /\ pc' = "done"
                      /\ exc' = "Exception"
                      /\ exit_code' = Some(1)
                      /\ UNCHANGED mi
                 ELSE /\ mi' = mi + 1
                      /\ UNCHANGED <<pc, exc, exit_code>>
  /\ UNCHANGED <<args, diff_url, stdout_isatty, stdin_isatty, line, user_input,
                 input_called, fetched, rollup_state, pr, update_details, updates,
                 updates_by_group_name, groups, gi, to_review, action>>

\* MergeStep without the test of check_status.
MergeStep_AnyStatus ==
  /\ pc = "merging"
  /\ mi <= Len(prs)
  /\ mi' = mi + 1
  /\ LET update == prs[mi] IN
       \E raised \in BOOLEAN :
         /\ mergeCalls' =
              Append(mergeCalls,
                     [input |-> merge_pr(update.id, update.merge_method),
                      raised |-> raised])
         /\ effect' =
              Stdout(<< <<"Merging">> \o update.url \o <<"...">> >>
                     \o (IF raised THEN << <<"Merge failed: ">> >>
                         ELSE <<>>))
  /\ UNCHANGED <<pc, args, diff_url, stdout_isatty, stdin_isatty, line, user_input,
                 input_called, fetched, rollup_state, pr, update_details, updates,
                 updates_by_group_name, groups, gi, to_review, action, exc,
                 exit_code>>

\* MergeStep that walks prs from its end.
MergeStep_Reversed ==
  /\ pc = "merging"
  /\ mi <= Len(prs)
  /\ mi' = mi + 1
  /\ LET update == prs[Len(prs) + 1 - mi] IN
       IF update.check_status # "SUCCESS"
       THEN UNCHANGED mergeCalls /\ effect' = NoEffect
       ELSE \E raised \in BOOLEAN :
              /\ mergeCalls' =
                   Append(mergeCalls,
                          [input |-> merge_pr(update.id, update.merge_method),
                           raised |-> raised])
              /\ effect' =
                   Stdout(<< <<"Merging">> \o update.url \o <<"...">> >>
                          \o (IF raised THEN << <<"Merge failed: ">> >>
                              ELSE <<>>))
  /\ UNCHANGED <<pc, args, diff_url, stdout_isatty, stdin_isatty, line, user_input,
                 input_called, fetched, rollup_state, pr, update_details, updates,
                 updates_by_group_name, groups, gi, to_review, action, exc,
                 exit_code>>

\* One iteration of the merge loop; gh.query returns or raises.
MergeStep ==
  /\ pc = "merging"
  /\ mi <= Len(prs)
  /\ mi' = mi + 1
  /\ LET update == prs[mi] IN
       IF update.check_status # "SUCCESS"
       THEN UNCHANGED mergeCalls /\ effect' = NoEffect
       ELSE \E raised \in BOOLEAN :
              /\ mergeCalls' =
                   Append(mergeCalls,
                          [input |-> merge_pr(update.id, update.merge_method),
                           raised |-> raised])
              /\ effect' =
                   Stdout(<< <<"Merging">> \o update.url \o <<"...">> >>
                          \o (IF raised THEN << <<"Merge failed: ">> >>
                              ELSE <<>>))
  /\ UNCHANGED <<pc, args, diff_url, stdout_isatty, stdin_isatty, line, user_input, input_called,
                 fetched, rollup_state, pr, update_details, updates, updates_by_group_name,
                 groups, gi, to_review, action, exc, exit_code>>

\* MergeBreak without the break: the while loop prompts again.
MergeBreak_Reloop ==
  /\ pc = "merging"
  /\ mi > Len(prs)
  /\ pc' = "read"
  /\ effect' = NoEffect
  /\ UNCHANGED <<args, diff_url, stdout_isatty, stdin_isatty, line, user_input,
                 input_called, fetched, rollup_state, pr, update_details, updates,
                 updates_by_group_name, groups, gi, to_review, action, mi,
                 mergeCalls, exc, exit_code>>

\* The merge loop is over: break, and review_updates returns.
MergeBreak ==
  /\ pc = "merging"
  /\ mi > Len(prs)
  /\ SessionReturns
  /\ UNCHANGED <<args, diff_url, stdout_isatty, stdin_isatty, line, user_input, input_called, fetched,
                 rollup_state, pr, update_details, updates, updates_by_group_name, groups,
                 action, mi, mergeCalls, exc, exit_code>>

\* The branches that go round the while loop again.
Stay ==
  UNCHANGED <<pc, args, diff_url, stdout_isatty, stdin_isatty, line, user_input, fetched, rollup_state, pr, update_details,
              updates, updates_by_group_name, groups, gi, to_review, mi,
              mergeCalls, exc, exit_code>>

DoReview ==
  /\ ReadReturns(Review)
  /\ effect' = Stdout(Indent(ReviewNotes(prs)))
  /\ Stay

\* DoView with a break after open_url.
DoView_Break ==
  /\ ReadReturns(View)
  /\ SessionReturns
  /\ UNCHANGED <<args, diff_url, stdout_isatty, stdin_isatty, line, user_input,
                 fetched, rollup_state, pr, update_details, updates, updates_by_group_name,
                 groups, mi, mergeCalls, exc, exit_code>>

DoView ==
  /\ ReadReturns(View)
  /\ effect' = open_url(prs[1].url)
  /\ Stay

DoList ==
  /\ ReadReturns(List)
  /\ effect' = Stdout(Indent(Sorted([i \in 1..Len(prs) |-> prs[i].url])))
  /\ Stay

\* DoDiff that opens one of several URLs.
DoDiff_OpensFirst ==
  /\ ReadReturns(Diff)
  /\ LET diff_urls == DiffUrls(prs) IN
       IF Cardinality(diff_urls) = 0
       THEN effect' = Stdout(<<
              <<"Package diffs are not available for these packages.">>,
              <<>>,
              <<"Package diffs are currently only available for npm packages.">> >>)
       ELSE effect' = open_url(CHOOSE url \in diff_urls : TRUE)
  /\ Stay

DoDiff ==
  /\ ReadReturns(Diff)
  /\ LET diff_urls == DiffUrls(prs) IN
       IF Cardinality(diff_urls) = 0
       THEN effect' = Stdout(<<
              <<"Package diffs are not available for these packages.">>,
              <<>>,
              <<"Package diffs are currently only available for npm packages.">> >>)
       ELSE IF Cardinality(diff_urls) = 1
       THEN effect' = open_url(CHOOSE url \in diff_urls : TRUE)
       ELSE effect' = StdoutSet(<<>>, diff_urls)
  /\ Stay

Next ==
  \/ FetchStep
  \/ FetchError
  \/ FetchReturn
  \/ NextGroup
  \/ MainReturn
  \/ ReadRetry
  \/ ReadAbort
  \/ DoQuit
  \/ DoMerge
  \/ MergeStep
  \/ MergeBreak
  \/ DoSkip
  \/ DoReview
  \/ DoView
  \/ DoList
  \/ DoDiff

Spec == Init /\ [][Next]_vars

\* A pass of the while loop of review_updates in which read_action returned
\* its default without reading a line.
DefaultStep ==
  /\ TakesDefault(stdout_isatty, ReviewDefault)
  /\ \/ DoDiff
     \/ DoMerge
     \/ DoSkip
     \/ DoQuit
     \/ DoReview
     \/ DoList
     \/ DoView

\* The run with the progress of main's loop: the program is sequential, so
\* the top of the loop is executed when control is there, and a read_action
\* that takes its default returns; a read_action that prompts waits for the
\* user, with no bound.
SpecFair == Spec /\ WF_vars(NextGroup \/ MainReturn \/ DefaultStep)

(***************************************************************************)
(* The assembly of the batch alone: fetch_dependency_prs and main up to    *)
(* its loop, for every command line of ArgsChoices.                        *)
(***************************************************************************)
InitFetch ==
  /\ pc = "fetch"
  /\ args \in ArgsChoices
  /\ diff_url = None
  /\ stdout_isatty = FALSE
  /\ stdin_isatty = FALSE
  /\ input_called = FALSE
  /\ line = None
  /\ user_input = None
  /\ fetched = 0
  /\ rollup_state = None
  /\ pr = None
  /\ update_details = None
  /\ updates = <<>>
  /\ updates_by_group_name = <<>>
  /\ groups = <<>>
  /\ gi = 0
  /\ to_review = 0
  /\ action = <<>>
  /\ mi = 0
  /\ mergeCalls = <<>>
  /\ effect = NoEffect
  /\ exc = ""
  /\ exit_code = None

NextFetch ==
  \/ FetchStep
  \/ FetchError
  \/ FetchReturn

SpecFetch == InitFetch /\ [][NextFetch]_vars

(***************************************************************************)
(* read_action alone, statement by statement, as review_updates calls it:  *)
(* for every terminal and every line of RawInputs.                         *)
(***************************************************************************)
\* The variables read_action does not touch.
callerVars ==
  <<args, diff_url, stdout_isatty, stdin_isatty, fetched, rollup_state, pr, update_details, updates,
    updates_by_group_name, groups, gi, to_review, mi, mergeCalls, effect,
    exit_code>>

InitRead ==
  /\ pc = "read_action"
  /\ args = [repo_filter |-> None, type |-> None]
  /\ diff_url = None
  /\ stdout_isatty \in BOOLEAN
  /\ stdin_isatty \in BOOLEAN
  /\ input_called = FALSE
  /\ line = None
  /\ user_input = None
  /\ fetched = 0
  /\ rollup_state = None
  /\ pr = None
  /\ update_details = None
  /\ updates = <<>>
  /\ updates_by_group_name = <<>>
  /\ groups = <<>>
  /\ gi = 0
  /\ to_review = 0
  /\ action = <<>>
  /\ mi = 0
  /\ mergeCalls = <<>>
  /\ effect = NoEffect
  /\ exc = ""
  /\ exit_code = None

\* "if not os.isatty(sys.stdout.fileno()) and default: return default"
ReadActionDefault ==
  /\ pc = "read_action"
  /\ TakesDefault(stdout_isatty, ReviewDefault)
  /\ action' = ReviewDefault[1]
  /\ pc' = "return"
  /\ UNCHANGED <<callerVars, input_called, line, user_input, exc>>

ReadActionLoop ==
  /\ pc = "read_action"
  /\ ~TakesDefault(stdout_isatty, ReviewDefault)
  /\ pc' = "prompt"
  /\ UNCHANGED <<callerVars, input_called, line, user_input, action, exc>>

\* input() returns a line.
ReadActionInput ==
  /\ pc = "prompt"
  /\ \E raw \in RawInputs :
       /\ line' = Some(raw)
       /\ user_input' = Some(Lower(Strip(raw)))
  /\ input_called' = TRUE
  /\ pc' = "match"
  /\ UNCHANGED <<callerVars, action, exc>>

\* input() raises EOFError or KeyboardInterrupt.
ReadActionRaise ==
  /\ pc = "prompt"
  /\ \E raised \in {"EOFError", "KeyboardInterrupt"} :
       exc' = "PromptAbortError"
  /\ input_called' = TRUE
  /\ pc' = "raise"
  /\ UNCHANGED <<callerVars, line, user_input, action>>

\* The token itself returned when no action matches it.
ReadActionFor_ReturnsToken ==
  /\ pc = "match"
  /\ LET found == ReadActionMatch(ReviewActions, user_input[1]) IN
       IF found # 0
       THEN action' = ReviewActions[found] /\ pc' = "return"
       ELSE action' = user_input[1] /\ pc' = "return"
  /\ UNCHANGED <<callerVars, input_called, line, user_input, exc>>

\* The two for loops: return the match, or go round the while loop again.
ReadActionFor ==
  /\ pc = "match"
  /\ LET found == ReadActionMatch(ReviewActions, user_input[1]) IN
       IF found # 0
       THEN action' = ReviewActions[found] /\ pc' = "return"
       ELSE UNCHANGED action /\ pc' = "prompt"
  /\ UNCHANGED <<callerVars, input_called, line, user_input, exc>>

NextRead ==
  \/ ReadActionDefault
  \/ ReadActionLoop
  \/ ReadActionInput
  \/ ReadActionRaise
  \/ ReadActionFor

SpecRead == InitRead /\ [][NextRead]_vars

(***************************************************************************)
(* parse_dependabot_pr alone, as fetch_dependency_prs calls it: for every  *)
(* title of Titles with every body of Bodies.                              *)
(***************************************************************************)
Titles ==
  { BumpSingle.title,
    <<"bump", " ", "a", "b", " ", "FROM", " ", "1", " ", "To", " ", "2">>,
    <<"build:", " ", "Bump", " ", "x", " ", "from", " ", "1", " ", "to", " ",
      "2", " ", "in", " ", "/", "d">>,
    BumpGroupOfOne.title,
    BumpGroupOfTwo.title,
    <<"BUMP", " ", "THE", " ", "c", " ", "GROUP", " ", "with", " ", "2", " ",
      "updates">>,
    <<"Bump", " ", "x", " ", "and", " ", "p">>,
    UnknownTitle.title }

Bodies ==
  { \* the body of a single update
    BumpSingle.bodyHTML,
    \* a single update with two sections, one of them with elements inside
    << P(<<"Bumps", " ", "x", " ", "from", " ", "1", " ", "to", " ", "2",
           ".">>),
       Details(<<"text">>),
       Tag("details", <<>>,
           << Tag("summary", <<"Commits">>, <<>>), Text(<<"\n">>),
              P(<<"text">>) >>),
       Hr, Commands >>,
    \* the bodies of the groups
    BumpGroupOfOne.bodyHTML,
    BumpGroupOfTwo.bodyHTML,
    \* a group of one update, as Dependabot ends the paragraph
    << P(<<"Bumps", " ", "the", " ", "b", " ", "group", " ", "with", " ",
           "1", " ", "update:", " ", "x", ".">>),
       Details(<<"text">>), Hr, Commands >>,
    \* release notes with a paragraph that reads like an update heading
    << P(<<"Updates", " ", "x", " ", "from", " ", "1", " ", "to", " ",
           "3">>),
       Tag("details", <<>>,
           << Tag("summary", <<"Release notes">>, <<>>), Text(<<"\n">>),
              P(<<"Updates", " ", "p", " ", "from", " ", "2", " ", "to",
                  " ", "3">>) >>),
       Details(<<"text">>), Hr, Commands >>,
    \* a changelog with a line that reads like an update heading
    << P(<<"Updates", " ", "x", " ", "from", " ", "1", " ", "to", " ",
           "3">>),
       Details(<<"text">>),
       Details(<<"Changelog", "\n", "Updates", " ", "p", " ", "from", " ",
                 "2", " ", "to", " ", "3">>),
       Hr, Commands >>,
    \* a heading in lower case
    << P(<<"updates", " ", "x", " ", "from", " ", "1", " ", "to", " ",
           "3">>),
       Details(<<"text">>), Hr, Commands >>,
    \* no heading at all
    << P(<<"text">>), Details(<<"text">>), Hr, Commands >>,
    \* an empty body
    <<>> }

\* The nodes parse_dependabot_pr is called with.
ParseInputs ==
  {[reviewDecision |-> "APPROVED",
    headRefName |-> <<"dependabot", "pip", "x-2">>,
    title |-> title,
    bodyHTML |-> body] : title \in Titles, body \in Bodies}

InitParse ==
  /\ pc = "parse_dependabot_pr"
  /\ pr \in {Some(<<node, None>>) : node \in ParseInputs}
  /\ args = [repo_filter |-> None, type |-> None]
  /\ diff_url = None
  /\ stdout_isatty = FALSE
  /\ stdin_isatty = FALSE
  /\ input_called = FALSE
  /\ line = None
  /\ user_input = None
  /\ fetched = 0
  /\ rollup_state = None
  /\ update_details = None
  /\ updates = <<>>
  /\ updates_by_group_name = <<>>
  /\ groups = <<>>
  /\ gi = 0
  /\ to_review = 0
  /\ action = <<>>
  /\ mi = 0
  /\ mergeCalls = <<>>
  /\ effect = NoEffect
  /\ exc = ""
  /\ exit_code = None

\* The variables parse_dependabot_pr does not touch.
parseCallerVars ==
  <<args, diff_url, stdout_isatty, stdin_isatty, input_called, line, user_input,
    fetched, rollup_state, pr, updates, updates_by_group_name, groups, gi,
    to_review, action, mi, mergeCalls, exit_code>>

\* The match of the title against title_re, and against the group patterns.
SingleTitle(title) == re_search(title_re, title, TRUE) # None

GroupTitle(title) ==
  \/ re_search(group_title_re, title, TRUE) # None
  \/ re_search(fallback_title_re, title, TRUE) # None

\* "if fields_match: ... return DependencyUpdateDetails(is_group=False)"
ParseSingle ==
  /\ pc = "parse_dependabot_pr"
  /\ SingleTitle(pr[1][1].title)
  /\ update_details' =
       Some(parse_dependabot_pr(pr[1][1].title, pr[1][1].bodyHTML))
  /\ pc' = "return"
  /\ UNCHANGED <<parseCallerVars, effect, exc>>

\* raise ValueError("PR title does not match known patterns")
ParseRaiseTitle ==
  /\ pc = "parse_dependabot_pr"
  /\ ~SingleTitle(pr[1][1].title)
  /\ ~GroupTitle(pr[1][1].title)
  /\ exc' = "ValueError"
  /\ effect' =
       Stderr(<< <<parse_dependabot_pr(pr[1][1].title,
                                       pr[1][1].bodyHTML).raises>> >>)
  /\ pc' = "raise"
  /\ UNCHANGED <<parseCallerVars, update_details>>

\* A group with no updates returned where the body has no heading.
ParseRaiseBody_ReturnsEmpty ==
  /\ pc = "parse_dependabot_pr"
  /\ ~SingleTitle(pr[1][1].title)
  /\ GroupTitle(pr[1][1].title)
  /\ Headings(pr[1][1].bodyHTML) = <<>>
  /\ update_details' = Some(DependencyUpdateDetails(<<>>, TRUE, <<>>))
  /\ pc' = "return"
  /\ UNCHANGED <<parseCallerVars, effect, exc>>

\* raise ValueError("Package names not found in PR body")
ParseRaiseBody ==
  /\ pc = "parse_dependabot_pr"
  /\ ~SingleTitle(pr[1][1].title)
  /\ GroupTitle(pr[1][1].title)
  /\ Headings(pr[1][1].bodyHTML) = <<>>
  /\ exc' = "ValueError"
  /\ effect' =
       Stderr(<< <<parse_dependabot_pr(pr[1][1].title,
                                       pr[1][1].bodyHTML).raises>> >>)
  /\ pc' = "raise"
  /\ UNCHANGED <<parseCallerVars, update_details>>

\* "return DependencyUpdateDetails(group_name=group_title, is_group=True)"
ParseGroup ==
  /\ pc = "parse_dependabot_pr"
  /\ ~SingleTitle(pr[1][1].title)
  /\ GroupTitle(pr[1][1].title)
  /\ Headings(pr[1][1].bodyHTML) # <<>>
  /\ update_details' =
       Some(parse_dependabot_pr(pr[1][1].title, pr[1][1].bodyHTML))
  /\ pc' = "return"
  /\ UNCHANGED <<parseCallerVars, effect, exc>>

NextParse ==
  \/ ParseSingle
  \/ ParseRaiseTitle
  \/ ParseRaiseBody
  \/ ParseGroup

SpecParse == InitParse /\ [][NextParse]_vars

(***************************************************************************)
(* get_package_diff_url alone, as the diff branch calls it: for every      *)
(* package type of PackageTypes and every update of DiffUpdates.           *)
(***************************************************************************)
PackageTypes == {"npm_and_yarn", "pip", "github_actions", "npm"}

\* The versions of an update: None, or a version as a pattern (\S+) takes it.
DiffVersions == {None, Some(<<"1">>), Some(<<"2">>)}

DiffUpdates ==
  { DependencyUpdate(name, from_version, to_version, <<>>) :
      name \in {<<"x">>, <<"a", "b">>, <<"p">>},
      from_version \in DiffVersions, to_version \in DiffVersions }

InitDiffUrl ==
  /\ pc = "get_package_diff_url"
  /\ pr \in {Some(<<package_type, update>>) :
               package_type \in PackageTypes, update \in DiffUpdates}
  /\ args = [repo_filter |-> None, type |-> None]
  /\ diff_url = None
  /\ stdout_isatty = FALSE
  /\ stdin_isatty = FALSE
  /\ input_called = FALSE
  /\ line = None
  /\ user_input = None
  /\ fetched = 0
  /\ rollup_state = None
  /\ update_details = None
  /\ updates = <<>>
  /\ updates_by_group_name = <<>>
  /\ groups = <<>>
  /\ gi = 0
  /\ to_review = 0
  /\ action = <<>>
  /\ mi = 0
  /\ mergeCalls = <<>>
  /\ effect = NoEffect
  /\ exc = ""
  /\ exit_code = None

\* The variables get_package_diff_url does not touch.
diffUrlCallerVars ==
  <<args, stdout_isatty, stdin_isatty, input_called, line, user_input,
    fetched, rollup_state, pr, update_details, updates,
    updates_by_group_name, groups, gi, to_review, action, mi, mergeCalls,
    effect, exc, exit_code>>

\* "if not update.from_version or not update.to_version: return None"
DiffUrlNoVersion ==
  /\ pc = "get_package_diff_url"
  /\ ~Truthy(pr[1][2].from_version) \/ ~Truthy(pr[1][2].to_version)
  /\ diff_url' = get_package_diff_url(pr[1][1], pr[1][2])
  /\ pc' = "return"
  /\ UNCHANGED diffUrlCallerVars

\* case "npm_and_yarn": return the URL
DiffUrlNpm ==
  /\ pc = "get_package_diff_url"
  /\ Truthy(pr[1][2].from_version) /\ Truthy(pr[1][2].to_version)
  /\ pr[1][1] = "npm_and_yarn"
  /\ diff_url' = get_package_diff_url(pr[1][1], pr[1][2])
  /\ pc' = "return"
  /\ UNCHANGED diffUrlCallerVars

\* case _: return None
DiffUrlOther ==
  /\ pc = "get_package_diff_url"
  /\ Truthy(pr[1][2].from_version) /\ Truthy(pr[1][2].to_version)
  /\ pr[1][1] # "npm_and_yarn"
  /\ diff_url' = get_package_diff_url(pr[1][1], pr[1][2])
  /\ pc' = "return"
  /\ UNCHANGED diffUrlCallerVars

NextDiffUrl ==
  \/ DiffUrlNoVersion
  \/ DiffUrlNpm
  \/ DiffUrlOther

SpecDiffUrl == InitDiffUrl /\ [][NextDiffUrl]_vars

(***************************************************************************)
(* Properties.                                                             *)
(***************************************************************************)
\* The PRs of the j-th group.
GroupPrs(j) == updates_by_group_name[groups[j]]

\* The merge calls sent for the PRs of prs_, in the order sent.
CallsFor(prs_) ==
  LET ForGroup(call) ==
        \E i \in 1..Len(prs_) : prs_[i].id = call.input.pullRequestId
      sent == SelectSeq(mergeCalls, ForGroup)
  IN [k \in 1..Len(sent) |-> sent[k].input]

\* The merge calls the merge action owes the PRs of prs_: one for each PR
\* whose checks passed, in the order of prs_.
Passing(prs_) ==
  LET Passed(u) == u.check_status = "SUCCESS"
      passed == SelectSeq(prs_, Passed)
  IN [k \in 1..Len(passed) |->
        [pullRequestId |-> passed[k].id, mergeMethod |-> passed[k].merge_method]]

\* The records of mergeCalls for the PRs of prs_.
RecordsFor(prs_) ==
  LET ForGroup(call) ==
        \E i \in 1..Len(prs_) : prs_[i].id = call.input.pullRequestId
  IN SelectSeq(mergeCalls, ForGroup)

\* C1: the merge action sends a merge call for exactly the PRs of the group
\* whose check_status is SUCCESS, in the order of the group, each with the id
\* and the merge_method of its PR; no PR with another status ever gets a
\* merge call, whatever the user enters.
C1_MergeExactlyPassing ==
  /\ \A k \in 1..Len(mergeCalls) :
       \E i \in 1..Len(updates) :
         /\ updates[i].id = mergeCalls[k].input.pullRequestId
         /\ updates[i].check_status = "SUCCESS"
         /\ updates[i].merge_method = mergeCalls[k].input.mergeMethod
  /\ pc = "merging" =>
       CallsFor(prs) = Passing(SubSeq(prs, 1, mi - 1))
  /\ (pc = "main" /\ gi > 1 /\ action = Merge) =>
       CallsFor(GroupPrs(gi - 1)) = Passing(GroupPrs(gi - 1))
  /\ \A j \in 1..Len(groups) :
       IF j < gi
       THEN CallsFor(GroupPrs(j)) \in {<<>>, Passing(GroupPrs(j))}
       ELSE (j = gi /\ pc = "merging") \/ CallsFor(GroupPrs(j)) = <<>>

\* A group of three PRs, passed, not passed, passed, was merged.
C1_Witness ==
  /\ pc = "main"
  /\ gi > 1
  /\ action = Merge
  /\ Len(GroupPrs(gi - 1)) = 3
  /\ GroupPrs(gi - 1)[1].check_status = "SUCCESS"
  /\ GroupPrs(gi - 1)[2].check_status = "PENDING"
  /\ GroupPrs(gi - 1)[3].check_status = "SUCCESS"
  /\ Len(mergeCalls) = 2
  /\ mergeCalls[1].input.mergeMethod # mergeCalls[2].input.mergeMethod

\* C2: after quit in the session of one group, no later group is reviewed
\* (no prompt and no merge loop follows) and the run ends with exit code 0.
C2_QuitStopsBatch ==
  action = Quit =>
    /\ pc \notin {"read", "merging"}
    /\ pc = "done" => exit_code = Some(0)

\* C3: when input() hits end of input or an interrupt, PromptAbortError ends
\* the run: main returns 0 from the group it was at, takes no further step,
\* and the merge calls sent before stay as they are.
C3_AbortEndsRun ==
  /\ [](exc = "PromptAbortError" =>
          /\ pc = "done"
          /\ exit_code = Some(0)
          /\ gi <= Len(groups)
          /\ input_called)
  /\ [][/\ exc # "PromptAbortError"
        /\ exc' = "PromptAbortError" =>
             /\ pc = "read"
             /\ mergeCalls' = mergeCalls
             /\ gi' = gi]_vars

\* The user merged the first of three groups and input ended at the prompt
\* of the second.
C3_Witness ==
  /\ exc = "PromptAbortError"
  /\ Len(groups) = 3
  /\ gi = 2
  /\ Len(mergeCalls) = 1
  /\ CallsFor(GroupPrs(1)) # <<>>

\* C5: a merge call that raises is caught and reported for its PR only: the
\* loop goes on to the next PR, every PR of the group whose checks passed
\* still gets its call, the session ends as it does without a failure, and
\* main goes on to the groups that are left.
C5_FailedMergeIsLocal ==
  /\ [](/\ mergeCalls # <<>> => exc \in {"", "PromptAbortError"}
        /\ mergeCalls # <<>> /\ pc = "done" => exit_code = Some(0)
        /\ \A j \in 1..(gi - 1) :
             (\E k \in 1..Len(RecordsFor(GroupPrs(j))) :
                RecordsFor(GroupPrs(j))[k].raised)
               => CallsFor(GroupPrs(j)) = Passing(GroupPrs(j))
        /\ (pc = "main" /\ gi <= Len(groups)) => ENABLED NextGroup)
  /\ [][/\ (/\ Len(mergeCalls') > Len(mergeCalls)
            /\ mergeCalls'[Len(mergeCalls')].raised)
           => /\ pc' = "merging"
              /\ mi' = mi + 1
              /\ gi' = gi
              /\ exc' = exc
              /\ effect' =
                   Stdout(<< <<"Merging">> \o prs[mi].url \o <<"...">>,
                             <<"Merge failed: ">> >>)
        /\ (pc = "merging" /\ pc' # "merging")
           => /\ mi > Len(prs)
              /\ pc' = "main"
              /\ gi' = gi + 1
              /\ exc' = exc]_vars

\* The first merge call of the first group raised, the second PR of the
\* group was merged after it, and the second group is at its prompt.
C5_Witness ==
  /\ pc = "read"
  /\ gi = 2
  /\ Len(mergeCalls) = 2
  /\ mergeCalls[1].raised
  /\ ~mergeCalls[2].raised
  /\ Len(GroupPrs(1)) = 2

\* C6: no PR gets more than one merge call in a run, whatever the user
\* enters and whichever calls raise.
C6_MergeAtMostOnce ==
  \A k1, k2 \in 1..Len(mergeCalls) :
    mergeCalls[k1].input.pullRequestId = mergeCalls[k2].input.pullRequestId
      => k1 = k2

\* The run ended with three merge calls, one of which raised.
C6_Witness ==
  /\ pc = "done"
  /\ Len(mergeCalls) = 3
  /\ mergeCalls[2].raised
  /\ ~mergeCalls[3].raised

\* C8: review, list, view and diff come back to the prompt of the same
\* group and send no merge call; a session ends only through merge, skip or
\* quit (or the abort of the run).
C8_OnlyMergeSkipQuitEnd ==
  [][/\ (pc = "read" /\ pc' # "read" /\ exc' = "")
          => action' \in {Merge, Skip, Quit}
     /\ (pc = "read" /\ pc' = "read")
          => /\ gi' = gi
             /\ mergeCalls' = mergeCalls
             /\ exc' = exc
     /\ (pc = "read" /\ exc' = "" /\ effect' # effect
           /\ action' \in {Review, List, View, Diff})
          => /\ pc' = "read"
             /\ gi' = gi
             /\ mergeCalls' = mergeCalls]_vars

\* The user entered review, list, view and diff... and is at the prompt of
\* the same group: here after view.
C8_Witness ==
  /\ pc = "read"
  /\ action = View
  /\ effect = open_url(prs[1].url)
  /\ gi = 1
  /\ \E i \in 1..Len(prs) : prs[i].check_status = "SUCCESS"
  /\ mergeCalls = <<>>

\* C9: skip ends the session of the group at once and does nothing else: no
\* merge call, no URL opened; main goes on with the next group.
C9_SkipHasNoEffect ==
  /\ []((pc = "main" /\ gi > 1 /\ action = Skip)
          => /\ CallsFor(GroupPrs(gi - 1)) = <<>>
             /\ effect.kind # "open"
             /\ (gi <= Len(groups) => ENABLED NextGroup))
  /\ [][(pc = "read" /\ action' = Skip /\ pc' # "read" /\ exc' = "")
          => /\ pc' = "main"
             /\ gi' = gi + 1
             /\ mergeCalls' = mergeCalls
             /\ effect'.kind # "open"
             /\ exit_code' = exit_code]_vars

\* The user skipped a first group that had a PR to merge, and the second
\* group is at its prompt.
C9_Witness ==
  /\ pc = "read"
  /\ gi = 2
  /\ action = Skip
  /\ stdout_isatty
  /\ \E i \in 1..Len(GroupPrs(1)) : GroupPrs(1)[i].check_status = "SUCCESS"
  /\ mergeCalls = <<>>

\* C10: the classification of the rollup state: no rollup gives MISSING,
\* "SUCCESS" gives SUCCESS, "PENDING" and "EXPECTED" give PENDING, "ERROR"
\* and "FAILURE" give FAILED, any other state gives FAILED, and nothing but
\* "SUCCESS" gives SUCCESS.  (In the fetch loop rollup_state is the rollup
\* state of the PR appended last.)
C10_Classification ==
  (pc = "fetch" /\ updates # <<>>) =>
    LET check_status == updates[Len(updates)].check_status IN
      /\ check_status \in CheckStatus
      /\ rollup_state = None <=> check_status = "MISSING"
      /\ rollup_state = <<"SUCCESS">> <=> check_status = "SUCCESS"
      /\ rollup_state \in {<<"PENDING">>, <<"EXPECTED">>}
           <=> check_status = "PENDING"
      /\ rollup_state \in {<<"ERROR">>, <<"FAILURE">>}
           => check_status = "FAILED"
      /\ rollup_state \notin {<<>>, <<"SUCCESS">>, <<"PENDING">>,
                              <<"EXPECTED">>}
           <=> check_status = "FAILED"

\* A PR with a rollup state the program does not know was appended.
C10_Witness ==
  /\ pc = "fetch"
  /\ Len(updates) = 2
  /\ rollup_state = <<"NEUTRAL">>
  /\ updates[2].check_status = "FAILED"
  /\ updates[1].check_status = "MISSING"

\* C4: when input is not attached to a terminal, read_action returns skip
\* at once: it reads no input and does not raise the abort condition.
C4_NoTerminalNoInput ==
  ~stdin_isatty =>
    /\ ~input_called
    /\ exc = ""
    /\ pc \in {"read_action", "return"}
    /\ pc = "return" => action = <<"s", "k", "i", "p">>

\* C7 as stated, with the declaration order merge, skip, quit, review, list,
\* view, diff: a token equal to an action selects it, otherwise the first
\* action of that order that starts with the token is selected.
C7_ClaimedOrder ==
  (pc = "return" /\ line # None) =>
    LET token == user_input[1]
        order == <<Merge, Skip, Quit, Review, List, View, Diff>>
        starts == {i \in 1..Len(order) : StartsWith(order[i], token)}
    IN IF \E i \in 1..Len(order) : order[i] = token
       THEN action = token
       ELSE /\ starts # {}
            /\ \E i \in starts :
                 /\ action = order[i]
                 /\ \A j \in starts : i <= j

\* C7, amended: the token is the typed line without its surrounding
\* whitespace, in lower case; a token equal to an action selects it,
\* otherwise the first action of the order diff, merge, skip, quit, review,
\* list, view that starts with the token is selected; m, s, q, r, l, v, d
\* select merge, skip, quit, review, list, view, diff.
C7_TokenSelectsAction ==
  /\ (pc \in {"match", "return"} /\ line # None) =>
       LET typed == line[1]
           token == user_input[1]
       IN /\ \E k \in 0..Len(typed) :
               /\ k + Len(token) <= Len(typed)
               /\ \A i \in 1..Len(typed) :
                    IF k < i /\ i <= k + Len(token)
                    THEN token[i - k] = LowerChar(typed[i])
                    ELSE typed[i] \in Whitespace
          /\ token # <<>> =>
               /\ token[1] \notin Whitespace
               /\ token[Len(token)] \notin Whitespace
          /\ \A i \in 1..Len(token) : token[i] \notin UpperCase
  /\ (pc = "return" /\ line # None) =>
       LET typed == line[1]
           token == user_input[1]
           order == <<Diff, Merge, Skip, Quit, Review, List, View>>
           starts == {i \in 1..Len(order) : StartsWith(order[i], token)}
       IN /\ IF \E i \in 1..Len(order) : order[i] = token
             THEN action = token
             ELSE /\ starts # {}
                  /\ \E i \in starts :
                       /\ action = order[i]
                       /\ \A j \in starts : i <= j
          /\ token = <<"m">> => action = <<"m", "e", "r", "g", "e">>
          /\ token = <<"s">> => action = <<"s", "k", "i", "p">>
          /\ token = <<"q">> => action = <<"q", "u", "i", "t">>
          /\ token = <<"r">> => action = <<"r", "e", "v", "i", "e", "w">>
          /\ token = <<"l">> => action = <<"l", "i", "s", "t">>
          /\ token = <<"v">> => action = <<"v", "i", "e", "w">>
          /\ token = <<"d">> => action = <<"d", "i", "f", "f">>
          /\ typed = <<"M", "E", "R", "G", "E">>
               => action = <<"m", "e", "r", "g", "e">>
          /\ typed = <<" ", "q", " ", "\n">> => action = <<"q", "u", "i", "t">>
          /\ typed = <<"\t", "V", "I">> => action = <<"v", "i", "e", "w">>

\* The user typed only whitespace: the token is empty, every action starts
\* with it, and the first of the list is returned.
C7_Witness ==
  /\ pc = "return"
  /\ line = << <<" ", " ", "\n">> >>
  /\ user_input = << <<>> >>
  /\ action = <<"d", "i", "f", "f">>
  /\ stdout_isatty

\* C11: while the batch is assembled, a PR whose title, body or branch does
\* not parse is logged with its URL and left out, and the loop goes on: the
\* list holds exactly the PRs that pass the repo filter and parse, in the
\* order of the search result, and the run is not aborted.
C11_MalformedPrIsLocal ==
  /\ []((pc = "fetch" /\ pr # None) =>
          LET kind == pr[1][1]
              id == fetched
              passes == \/ args.repo_filter = None
                        \/ Contains(Repos[id].name, args.repo_filter[1])
              parses == kind \in {BumpSingle, BumpSingleNpm, BumpGroupOfOne,
                                  BumpGroupOfTwo}
          IN /\ exc = ""
             /\ (passes /\ parses)
                  <=> (updates # <<>> /\ updates[Len(updates)].id = id)
             /\ (passes /\ ~parses)
                  <=> (effect.kind = "stderr"
                         /\ \E k \in 1..Len(effect.lines[1]) :
                              SubSeq(effect.lines[1], k, k + Len(UrlOf(id)) - 1)
                                = UrlOf(id))
             /\ \A i, j \in 1..Len(updates) :
                  i < j => updates[i].id < updates[j].id)
  /\ [][(pc = "fetch" /\ fetched' = fetched + 1) =>
          /\ pc' = "fetch"
          /\ exc' = ""
          /\ \/ updates' = updates
             \/ /\ Len(updates') = Len(updates) + 1
                /\ SubSeq(updates', 1, Len(updates)) = updates]_vars

\* Three PRs were fetched with no repo filter; the second did not parse and
\* the third is in the list after the first.
C11_Witness ==
  /\ pc = "fetch"
  /\ args.repo_filter = None
  /\ fetched = 3
  /\ Len(updates) = 2
  /\ updates[1].id = 1
  /\ updates[2].id = 3
  /\ pr[1][1] = BumpGroupOfTwo

\* C12: the grouping is a partition of the list of PRs by group_name: each
\* group holds the PRs of the list with its name, in the order of the list,
\* so every PR is in exactly one group; the groups are reviewed one after the
\* other in lexicographic order of their names.
C12_GroupingIsOrderedPartition ==
  /\ [](pc \in {"main", "read", "merging"} =>
          /\ DOMAIN updates_by_group_name
               = {updates[i].group_name : i \in 1..Len(updates)}
          /\ \A g \in DOMAIN updates_by_group_name :
               LET Named(u) == u.group_name = g
               IN updates_by_group_name[g] = SelectSeq(updates, Named)
          /\ \A i \in 1..Len(updates) :
               Cardinality(
                 {<<g, k>> \in (DOMAIN updates_by_group_name) \X (1..Len(updates)) :
                    /\ k <= Len(updates_by_group_name[g])
                    /\ updates_by_group_name[g][k].id = updates[i].id}) = 1
          /\ {groups[j] : j \in 1..Len(groups)} = DOMAIN updates_by_group_name
          /\ \A i, j \in 1..Len(groups) :
               i < j =>
                 \E k \in 1..Len(groups[j]) :
                   /\ k - 1 <= Len(groups[i])
                   /\ SubSeq(groups[i], 1, k - 1) = SubSeq(groups[j], 1, k - 1)
                   /\ \/ k > Len(groups[i])
                      \/ Ord[groups[i][k]] < Ord[groups[j][k]]
          /\ gi \in 1..(Len(groups) + 1)
          /\ pc \in {"read", "merging"} => gi <= Len(groups))
  /\ [][(pc = "fetch" /\ pc' = "main" => gi' = 1)
          /\ (pc # "fetch" => gi' \in {gi, gi + 1})
          /\ (pc # "fetch" /\ pc' = "read" /\ pc = "main" =>
                /\ gi' = gi
                /\ SubSeq(effect'.lines[1], 4, Len(effect'.lines[1]))
                     = groups[gi])]_vars

\* The list is b, ab, b: the group ab, inserted second, is reviewed first,
\* and the group b holds the first and the third PR in that order.
C12_Witness ==
  /\ pc = "read"
  /\ gi = 2
  /\ Len(updates) = 3
  /\ groups = << <<"a", "b">>, <<"b">> >>
  /\ updates[1].group_name = <<"b">>
  /\ updates[2].group_name = <<"a", "b">>
  /\ Len(prs) = 2
  /\ prs[1].id = 1
  /\ prs[2].id = 3

\* C13: over a whole run the merge calls are sent one at a time in
\* group-then-PR order: a call for a PR of one group comes before every call
\* for a PR of a group whose name is lexicographically greater, and the calls
\* for the PRs of one group come in the order of the PRs in the list.
C13_MergeCallsInGroupThenPrOrder ==
  /\ [](\A k, l \in 1..Len(mergeCalls) :
          k < l =>
            \E i, j \in 1..Len(updates) :
              /\ updates[i].id = mergeCalls[k].input.pullRequestId
              /\ updates[j].id = mergeCalls[l].input.pullRequestId
              /\ LET s == updates[i].group_name
                     t == updates[j].group_name
                 IN IF s = t THEN i < j
                    ELSE \E n \in 1..Len(t) :
                           /\ n - 1 <= Len(s)
                           /\ SubSeq(s, 1, n - 1) = SubSeq(t, 1, n - 1)
                           /\ n > Len(s) \/ Ord[s[n]] < Ord[t[n]])
  /\ [][\/ mergeCalls' = mergeCalls
        \/ /\ Len(mergeCalls') = Len(mergeCalls) + 1
           /\ SubSeq(mergeCalls', 1, Len(mergeCalls)) = mergeCalls]_vars

\* The list is b, ab, b with every check passed, and the user merged both
\* groups: the second PR was merged first, then the first and the third.
C13_Witness ==
  /\ pc = "done"
  /\ Len(updates) = 3
  /\ updates[1].group_name = <<"b">>
  /\ updates[2].group_name = <<"a", "b">>
  /\ updates[3].group_name = <<"b">>
  /\ [k \in 1..Len(mergeCalls) |-> mergeCalls[k].input.pullRequestId]
       = <<2, 1, 3>>

\* The title and the body parse_dependabot_pr was called with.
ParsedTitle == pr[1][1].title

ParsedBody == pr[1][1].bodyHTML

\* The (X, A, B) for which text reads "<first> X <second> A <third> B" with
\* the three words taken from the given sets: X, A and B are runs of
\* non-space characters.
WordsForm(text, first, second, third) ==
  LET Word(lo, hi) ==
        /\ lo <= hi
        /\ \A n \in lo..hi : text[n] \notin Whitespace
  IN { <<SubSeq(text, 3, ij[1] - 1), SubSeq(text, ij[1] + 3, ij[2] - 1),
         SubSeq(text, ij[2] + 3, Len(text))>> :
         ij \in
           { ij \in (1..Len(text)) \X (1..Len(text)) :
               /\ Len(text) >= 11
               /\ text[1] \in first
               /\ text[2] = " "
               /\ Word(3, ij[1] - 1)
               /\ text[ij[1]] = " "
               /\ ij[1] + 2 <= Len(text)
               /\ text[ij[1] + 1] \in second
               /\ text[ij[1] + 2] = " "
               /\ Word(ij[1] + 3, ij[2] - 1)
               /\ text[ij[2]] = " "
               /\ ij[2] + 2 <= Len(text)
               /\ text[ij[2] + 1] \in third
               /\ text[ij[2] + 2] = " "
               /\ Word(ij[2] + 3, Len(text)) } }

\* The (X, A, B) for which a title reads "Bump X from A to B", in any case.
SingleForm(title) ==
  WordsForm(title, {"Bump", "bump", "BUMP"}, {"from", "From", "FROM"},
            {"to", "To", "TO"})

\* C14: once parse_dependabot_pr has ended on a title that reads
\* "Bump X from A to B", in whatever case, it has returned, with any body, a
\* result that is not a group, whose group_name is X and whose updates are
\* one update with the name X, the from_version A and the to_version B.
C14_SingleTitleGivesOneUpdate ==
  \A form \in SingleForm(ParsedTitle) :
    pc # "parse_dependabot_pr" =>
      /\ pc = "return"
      /\ update_details # None
      /\ update_details[1].raises = ""
      /\ update_details[1].is_group = FALSE
      /\ update_details[1].group_name = form[1]
      /\ Len(update_details[1].updates) = 1
      /\ update_details[1].updates[1].name = form[1]
      /\ update_details[1].updates[1].from_version = Some(form[2])
      /\ update_details[1].updates[1].to_version = Some(form[3])

\* The title "bump ab FROM 1 To 2" was parsed with the body of a group of two
\* updates: the result is the single update of ab from 1 to 2.
C14_Witness ==
  /\ pc = "return"
  /\ ParsedTitle =
       <<"bump", " ", "a", "b", " ", "FROM", " ", "1", " ", "To", " ", "2">>
  /\ ParsedBody = BumpGroupOfTwo.bodyHTML
  /\ SingleForm(ParsedTitle) = {<< <<"a", "b">>, <<"1">>, <<"2">> >>}
  /\ update_details # None
  /\ update_details[1].is_group = FALSE
  /\ update_details[1].updates[1].name = <<"a", "b">>

\* The (G, N) for which a title reads "Bump the G group with N updates", in
\* any case of the words: G is a run of non-space characters and N a number.
GroupForm(title) ==
  { <<SubSeq(title, 5, i - 1), n>> :
      <<i, n>> \in
        { in \in (1..Len(title)) \X (2..5) :
            /\ Len(title) = in[1] + 7
            /\ title[1] \in {"Bump", "bump", "BUMP"}
            /\ title[2] = " "
            /\ title[3] \in {"the", "The", "THE"}
            /\ title[4] = " "
            /\ 5 <= in[1] - 1
            /\ \A k \in 5..(in[1] - 1) : title[k] \notin Whitespace
            /\ title[in[1]] = " "
            /\ title[in[1] + 1] \in {"group", "Group", "GROUP"}
            /\ title[in[1] + 2] = " "
            /\ title[in[1] + 3] = "with"
            /\ title[in[1] + 4] = " "
            /\ title[in[1] + 5] = Str(in[2])
            /\ title[in[1] + 6] = " "
            /\ title[in[1] + 7] = "updates" } }

\* The (dep, v1, v2) of a paragraph that reads "Updates dep from v1 to v2".
HeadingForm(text) == WordsForm(text, {"Updates"}, {"from"}, {"to"})

\* The texts of the paragraphs of a body that read as update headings, in
\* the order of the document.
HeadingTexts(soup) ==
  LET paragraphs == find_all(soup, "p")
      texts == [i \in 1..Len(paragraphs) |->
                  get_text(ElementAt(soup, paragraphs[i]))]
      IsHeading(text) == HeadingForm(text) # {}
  IN SelectSeq(texts, IsHeading)

\* C15: once parse_dependabot_pr has ended on a title that reads "Bump the G
\* group with N updates", N >= 2, and a body with N paragraphs that read
\* "Updates <dep> from <v1> to <v2>", it has returned a group named G with N
\* updates, the i-th of them with the name and the versions of the i-th
\* heading.
C15_GroupTitleGivesAnUpdatePerHeading ==
  \A form \in GroupForm(ParsedTitle) :
    (pc # "parse_dependabot_pr" /\ Len(HeadingTexts(ParsedBody)) = form[2])
      =>
      /\ pc = "return"
      /\ update_details # None
      /\ update_details[1].raises = ""
      /\ update_details[1].is_group = TRUE
      /\ update_details[1].group_name = form[1]
      /\ Len(update_details[1].updates) = form[2]
      /\ \A i \in 1..form[2] :
           HeadingForm(HeadingTexts(ParsedBody)[i]) =
             {<<update_details[1].updates[i].name,
                update_details[1].updates[i].from_version[1],
                update_details[1].updates[i].to_version[1]>>}

\* The title "BUMP THE c GROUP with 2 updates" was parsed with the body that
\* updates x from 1 to 3 and then p from 2 to 3.
C15_Witness ==
  /\ pc = "return"
  /\ GroupForm(ParsedTitle) = {<< <<"c">>, 2 >>}
  /\ ParsedTitle[1] = "BUMP"
  /\ ParsedBody = BumpGroupOfTwo.bodyHTML
  /\ Len(HeadingTexts(ParsedBody)) = 2
  /\ update_details # None
  /\ update_details[1].updates[1].name = <<"x">>
  /\ update_details[1].updates[2].name = <<"p">>
  /\ update_details[1].updates[2].from_version = Some(<<"2">>)

\* The dep for which a paragraph reads "Bumps the <group> group with 1
\* update: dep": the group and dep are runs of non-space characters.
SingleUpdateForm(text) ==
  { SubSeq(text, i + 9, Len(text)) :
      i \in { i \in 1..Len(text) :
                /\ Len(text) >= 4
                /\ SubSeq(text, 1, 4) = <<"Bumps", " ", "the", " ">>
                /\ 5 <= i - 1
                /\ \A k \in 5..(i - 1) : text[k] \notin Whitespace
                /\ i + 9 <= Len(text)
                /\ SubSeq(text, i, i + 8) =
                     <<" ", "group", " ", "with", " ", "1", " ", "update:",
                       " ">>
                /\ \A k \in (i + 9)..Len(text) :
                     text[k] \notin Whitespace } }

\* The names of the paragraphs of a body that read as the paragraph of a
\* single update, in the order of the document.
SingleUpdateNames(soup) ==
  LET paragraphs == find_all(soup, "p")
      texts == [i \in 1..Len(paragraphs) |->
                  get_text(ElementAt(soup, paragraphs[i]))]
      IsSingleUpdate(text) == SingleUpdateForm(text) # {}
      found == SelectSeq(texts, IsSingleUpdate)
  IN [i \in 1..Len(found) |-> CHOOSE dep \in SingleUpdateForm(found[i]) : TRUE]

\* C16: once parse_dependabot_pr has ended on the title of a group and a
\* body with no paragraph "Updates <dep> from <v1> to <v2>" and with one
\* paragraph "Bumps the <group> group with 1 update: <dep>", it has returned
\* a group with exactly one update, named dep, whose from_version and
\* to_version are both None.
C16_SingleUpdateParagraphGivesNoVersions ==
  ( /\ pc # "parse_dependabot_pr"
    /\ ~SingleTitle(ParsedTitle)
    /\ GroupTitle(ParsedTitle)
    /\ HeadingTexts(ParsedBody) = <<>>
    /\ Len(SingleUpdateNames(ParsedBody)) = 1 )
    =>
    /\ pc = "return"
    /\ update_details # None
    /\ update_details[1].raises = ""
    /\ update_details[1].is_group = TRUE
    /\ Len(update_details[1].updates) = 1
    /\ update_details[1].updates[1].name = SingleUpdateNames(ParsedBody)[1]
    /\ update_details[1].updates[1].from_version = None
    /\ update_details[1].updates[1].to_version = None

\* The title "Bump the b group with 1 update" was parsed with the body whose
\* paragraph reads "Bumps the b group with 1 update: x".
C16_Witness ==
  /\ pc = "return"
  /\ ParsedTitle = BumpGroupOfOne.title
  /\ ParsedBody = BumpGroupOfOne.bodyHTML
  /\ HeadingTexts(ParsedBody) = <<>>
  /\ SingleUpdateNames(ParsedBody) = << <<"x">> >>
  /\ update_details # None
  /\ update_details[1].is_group = TRUE
  /\ update_details[1].updates[1].from_version = None

\* Whether a title holds the word Bump, in any case, and a space after it:
\* it then matches the single-dependency pattern or a group pattern.
HasBump(title) ==
  \E i \in 1..(Len(title) - 1) :
    title[i] \in {"Bump", "bump", "BUMP"} /\ title[i + 1] = " "

\* C17: once parse_dependabot_pr has ended on a title that matches neither
\* the single-dependency pattern nor a group pattern, it has raised the
\* ValueError "PR title does not match known patterns" and returned nothing;
\* once it has ended on a group title and a body with neither an update
\* heading nor the paragraph of a single update, it has raised the ValueError
\* "Package names not found in PR body" and returned nothing; and every
\* result it has returned has at least one update.
C17_UnknownShapeRaises ==
  /\ (pc # "parse_dependabot_pr" /\ ~HasBump(ParsedTitle))
       => /\ pc = "raise"
          /\ exc = "ValueError"
          /\ update_details = None
          /\ effect.lines = << <<"PR title does not match known patterns">> >>
  /\ ( /\ pc # "parse_dependabot_pr"
       /\ HasBump(ParsedTitle)
       /\ ~SingleTitle(ParsedTitle)
       /\ HeadingTexts(ParsedBody) = <<>>
       /\ SingleUpdateNames(ParsedBody) = <<>> )
       => /\ pc = "raise"
          /\ exc = "ValueError"
          /\ update_details = None
          /\ effect.lines = << <<"Package names not found in PR body">> >>
  /\ update_details # None
       => /\ pc = "return"
          /\ update_details[1].raises = ""
          /\ Len(update_details[1].updates) >= 1

\* The title "Bump the c group with 2 updates" was parsed with an empty body:
\* parse_dependabot_pr raised the ValueError of the body.
C17_Witness ==
  /\ pc = "raise"
  /\ exc = "ValueError"
  /\ ParsedTitle = BumpGroupOfTwo.title
  /\ ParsedBody = <<>>
  /\ update_details = None
  /\ effect.lines = << <<"Package names not found in PR body">> >>

\* Whether an element is the details section of the commands.
IsCommands(el) ==
  /\ el.name = "details"
  /\ Contains(get_text(el), <<"Dependabot commands and options">>)

\* The details sections of a body that belong to the update of a returned
\* result whose heading is the paragraph at path: every section but the
\* commands for a single update; for a group, the sections that follow the
\* heading among its siblings, up to the next paragraph that is a heading
\* or to the hr.
RECURSIVE SectionsFrom(_, _)
SectionsFrom(siblings, k) ==
  IF k > Len(siblings) THEN <<>>
  ELSE IF \/ siblings[k].name = "hr"
          \/ /\ siblings[k].name = "p"
             /\ \/ HeadingForm(get_text(siblings[k])) # {}
                \/ SingleUpdateForm(get_text(siblings[k])) # {}
  THEN <<>>
  ELSE (IF siblings[k].name = "details" /\ ~IsCommands(siblings[k])
        THEN <<get_text(siblings[k])>>
        ELSE <<>>) \o SectionsFrom(siblings, k + 1)

OwnSections(soup, is_group, i) ==
  IF is_group
  THEN LET heading == Headings(soup)[i]
       IN SectionsFrom(SiblingsOf(soup, heading), heading[Len(heading)] + 1)
  ELSE LET all == find_all(soup, "details")
           NotCommands(path) == ~IsCommands(ElementAt(soup, path))
           kept == SelectSeq(all, NotCommands)
       IN [k \in 1..Len(kept) |-> get_text(ElementAt(soup, kept[k]))]

\* C18: the notes of every update of a result parse_dependabot_pr has
\* returned, for a single update and for a group, do not hold the text of
\* the "Dependabot commands and options" section and hold the text of every
\* other details section that belongs to the update.
C18_NotesAreTheOwnSections ==
  update_details # None =>
    \A i \in 1..Len(update_details[1].updates) :
      LET notes == update_details[1].updates[i].notes
          own == OwnSections(ParsedBody, update_details[1].is_group, i)
      IN /\ ~Contains(notes, <<"Dependabot commands and options">>)
         /\ \A k \in 1..Len(own) : Contains(notes, own[k])

\* C19: every update of a result parse_dependabot_pr has returned, for a
\* single update, for the headings of a group and for the paragraph of a
\* group of one update, has a from_version and a to_version that are both
\* None or both not None.
C19_VersionsComeInPairs ==
  update_details # None =>
    \A i \in 1..Len(update_details[1].updates) :
      (update_details[1].updates[i].from_version = None)
        <=> (update_details[1].updates[i].to_version = None)

\* The title "Bump x and p" was parsed with the body that ends its single
\* update paragraph with a full stop: the one update has neither version.
C19_Witness ==
  /\ pc = "return"
  /\ ParsedTitle = <<"Bump", " ", "x", " ", "and", " ", "p">>
  /\ SingleUpdateNames(ParsedBody) = << <<"x", ".">> >>
  /\ update_details # None
  /\ Len(update_details[1].updates) = 1
  /\ update_details[1].updates[1].from_version = None
  /\ update_details[1].updates[1].to_version = None

\* The diff URLs of the updates of the PRs of the j-th group: one for each
\* update of an npm_and_yarn PR with both versions.
GroupDiffUrls(j) ==
  { <<"https://diff.intrinsic.com/">> \o u.name \o <<"/">>
      \o u.from_version[1] \o <<"/">> \o u.to_version[1] :
      u \in UNION { { GroupPrs(j)[i].updates[k] :
                        k \in { k \in 1..Len(GroupPrs(j)[i].updates) :
                                  /\ GroupPrs(j)[i].package_type
                                       = "npm_and_yarn"
                                  /\ GroupPrs(j)[i].updates[k].from_version
                                       # None
                                  /\ GroupPrs(j)[i].updates[k].to_version
                                       # None } } :
                    i \in 1..Len(GroupPrs(j)) } }

\* C20: the diff action takes the set of the distinct diff URLs of all the
\* updates of all the PRs of the group; with no URL it prints the fixed
\* message and opens nothing, with one URL it opens that URL, and with more
\* it prints every URL and opens none.  It sends no merge call and stays at
\* the prompt of the group.
C20_DiffByNumberOfUrls ==
  [][(pc = "read" /\ pc' = "read" /\ gi' = gi /\ action' = Diff)
       => /\ mergeCalls' = mergeCalls
          /\ Cardinality(GroupDiffUrls(gi)) = 0
               => effect' = Stdout(<<
                    <<"Package diffs are not available for these packages.">>,
                    <<>>,
                    <<"Package diffs are currently only available for npm packages.">> >>)
          /\ Cardinality(GroupDiffUrls(gi)) = 1
               => /\ effect'.kind = "open"
                  /\ {effect'.lines[n] : n \in 1..Len(effect'.lines)}
                       = GroupDiffUrls(gi)
                  /\ Len(effect'.lines) = 1
          /\ Cardinality(GroupDiffUrls(gi)) > 1
               => /\ effect'.kind = "print"
                  /\ effect'.lines = <<>>
                  /\ effect'.any_order = GroupDiffUrls(gi)]_vars

\* The group ab has a pip PR and two npm PRs of ab from 1 to 2: the two npm
\* updates have the same diff URL, and diff opened it.
C20_Witness ==
  /\ pc = "read"
  /\ action = Diff
  /\ Len(GroupPrs(gi)) = 3
  /\ GroupPrs(gi)[1].package_type = "pip"
  /\ GroupPrs(gi)[2].package_type = "npm_and_yarn"
  /\ GroupPrs(gi)[3].package_type = "npm_and_yarn"
  /\ GroupDiffUrls(gi) =
       {<<"https://diff.intrinsic.com/", "a", "b", "/", "1", "/", "2">>}
  /\ effect =
       open_url(<<"https://diff.intrinsic.com/", "a", "b", "/", "1", "/",
                  "2">>)

\* The group c has two updates with two diff URLs, and diff printed both.
C20_WitnessMany ==
  /\ pc = "read"
  /\ action = Diff
  /\ Cardinality(GroupDiffUrls(gi)) = 2
  /\ effect.kind = "print"
  /\ effect.any_order = GroupDiffUrls(gi)

\* The group b has an npm update without versions, and diff printed the
\* message.
C20_WitnessNone ==
  /\ pc = "read"
  /\ action = Diff
  /\ GroupPrs(gi)[1].package_type = "npm_and_yarn"
  /\ GroupDiffUrls(gi) = {}
  /\ effect.kind = "print"
  /\ Len(effect.lines) = 3

\* C21: get_package_diff_url has returned None when the from_version or the
\* to_version of the update is None, and for every package type but
\* "npm_and_yarn"; for "npm_and_yarn" with both versions it has returned a
\* URL made of the name, the from_version and the to_version of the update
\* and of nothing else, so equal updates have equal URLs.
C21_DiffUrlOnlyForNpmWithVersions ==
  pc = "return" =>
    LET package_type == pr[1][1]
        update == pr[1][2]
    IN /\ (update.from_version = None \/ update.to_version = None)
            => diff_url = None
       /\ package_type # "npm_and_yarn" => diff_url = None
       /\ ( /\ package_type = "npm_and_yarn"
            /\ update.from_version # None
            /\ update.to_version # None )
            => diff_url =
                 Some(<<"https://diff.intrinsic.com/">> \o update.name
                        \o <<"/">> \o update.from_version[1]
                        \o <<"/">> \o update.to_version[1])

\* get_package_diff_url("npm_and_yarn", ab from 1 to 2) has returned
\* "https://diff.intrinsic.com/ab/1/2".
C21_Witness ==
  /\ pc = "return"
  /\ pr[1][1] = "npm_and_yarn"
  /\ pr[1][2].name = <<"a", "b">>
  /\ pr[1][2].from_version = Some(<<"1">>)
  /\ pr[1][2].to_version = Some(<<"2">>)
  /\ diff_url =
       Some(<<"https://diff.intrinsic.com/", "a", "b", "/", "1", "/", "2">>)

\* The lines of the notes of the updates of the first PR of the j-th group,
\* one update after the other.
FirstPrNoteLines(j) ==
  Flatten([k \in 1..Len(GroupPrs(j)[1].updates) |->
             SplitLines(GroupPrs(j)[1].updates[k].notes)])

\* C22: the review action prints the lines of the notes of the updates of
\* the first PR of the group, and of no other PR: the first 35 of them at
\* most, in their order, each after two spaces; when there are more than 35
\* lines it prints one more line after them, the hint to enter "view", and
\* when there are 35 or fewer it prints nothing after them.
C22_ReviewPrintsAtMost35Lines ==
  [][(pc = "read" /\ pc' = "read" /\ gi' = gi /\ action' = Review)
       => LET notes == FirstPrNoteLines(gi)
              shown == IF Len(notes) > 35 THEN 35 ELSE Len(notes)
          IN /\ effect'.kind = "print"
             /\ effect'.any_order = {}
             /\ \A n \in 1..shown : effect'.lines[n] = <<"  ">> \o notes[n]
             /\ Len(notes) <= 35 => Len(effect'.lines) = Len(notes)
             /\ Len(notes) > 35
                  => /\ Len(effect'.lines) = 36
                     /\ effect'.lines[36] =
                          <<"  ",
                            "... (Enter \"view\" to see full notes in browser)">>
             /\ mergeCalls' = mergeCalls]_vars

\* The group c has one PR with two updates whose notes have 34 lines and 2
\* lines: review printed "line 1" to "line 34" and "line 1", then the hint.
C22_Witness ==
  /\ pc = "read"
  /\ action = Review
  /\ Len(GroupPrs(gi)[1].updates) = 2
  /\ Len(FirstPrNoteLines(gi)) = 36
  /\ Len(effect.lines) = 36
  /\ effect.lines[34] = <<"  ", "line 34">>
  /\ effect.lines[35] = <<"  ", "line 1">>
  /\ effect.lines[36] =
       <<"  ", "... (Enter \"view\" to see full notes in browser)">>

\* The group ab has a first PR with notes of 35 lines and a second PR with
\* notes of 36 lines: review printed the 35 lines of the first and no hint.
C22_WitnessNoHint ==
  /\ pc = "read"
  /\ action = Review
  /\ Len(GroupPrs(gi)) = 2
  /\ Len(FirstPrNoteLines(gi)) = 35
  /\ Len(SplitLines(GroupPrs(gi)[2].updates[1].notes)) = 36
  /\ Len(effect.lines) = 35
  /\ effect.lines[35] = <<"  ", "line 35">>

\* C23: in a run whose standard output is not a terminal, so that read_action
\* returns its default at every prompt, main, once it has the groups, ends
\* with the exit code 0 after the loop has gone past the last group; the
\* sessions are those of the groups in lexicographic order, one for each
\* group; every session ends by skip and with main going on to the next
\* group; input() is never called, no merge call is sent and no URL is
\* opened.
C23_NonInteractiveRunSkipsEveryGroup ==
  /\ (~stdout_isatty /\ pc = "main")
       ~> ( /\ pc = "done"
            /\ exit_code = Some(0)
            /\ exc = ""
            /\ gi = Len(groups) + 1 )
  /\ [](~stdout_isatty =>
          /\ mergeCalls = <<>>
          /\ effect.kind # "open"
          /\ ~input_called
          /\ pc \notin {"merging", "raise"}
          /\ pc \in {"main", "read", "done"} =>
               \A i, j \in 1..Len(groups) :
                 i < j =>
                   \E k \in 1..Len(groups[j]) :
                     /\ k - 1 <= Len(groups[i])
                     /\ SubSeq(groups[i], 1, k - 1)
                          = SubSeq(groups[j], 1, k - 1)
                     /\ \/ k > Len(groups[i])
                        \/ Ord[groups[i][k]] < Ord[groups[j][k]])
  /\ [][~stdout_isatty =>
          /\ (pc = "fetch" /\ pc' = "main") => gi' = 1
          /\ (pc = "main" /\ pc' = "read")
               => /\ gi' = gi
                  /\ gi <= Len(groups)
                  /\ SubSeq(effect'.lines[1], 4, Len(effect'.lines[1]))
                       = groups[gi]
          /\ pc = "main" => pc' \in {"main", "read", "done"}
          /\ (pc = "main" /\ pc' = "done") => gi > Len(groups)
          /\ pc = "read"
               => /\ pc' = "main"
                  /\ action' = Skip
                  /\ gi' = gi + 1]_vars

\* A run whose output is not a terminal has ended with the exit code 0 after
\* three groups, each with a PR whose checks passed; nothing was merged.
C23_Witness ==
  /\ ~stdout_isatty
  /\ pc = "done"
  /\ exit_code = Some(0)
  /\ Len(groups) = 3
  /\ gi = 4
  /\ action = Skip
  /\ \A i \in 1..Len(updates) : updates[i].check_status = "SUCCESS"
  /\ mergeCalls = <<>>

\* The names of the actions of a review session.
ActionNames ==
  {<<"d", "i", "f", "f">>, <<"m", "e", "r", "g", "e">>,
   <<"s", "k", "i", "p">>, <<"q", "u", "i", "t">>,
   <<"r", "e", "v", "i", "e", "w">>, <<"l", "i", "s", "t">>,
   <<"v", "i", "e", "w">>}

\* Whether a token is the start of a name, or the name itself.
IsStartOf(token, name) ==
  Len(token) <= Len(name) /\ SubSeq(name, 1, Len(token)) = token

\* C24: when read_action prompts, what it returns is one of the actions
\* diff, merge, skip, quit, review, list, view; after a token that is
\* neither an action nor the start of one it prompts again and nothing else
\* changes; an empty token is the start of every action, and after it
\* read_action returns the first action of the list, diff, and not merge.
C24_PromptReturnsAnActionOfTheList ==
  /\ []((pc = "return" /\ line # None) => action \in ActionNames)
  /\ []((pc = "return" /\ line # None /\ user_input = Some(<<>>))
          => /\ \A name \in ActionNames : IsStartOf(user_input[1], name)
             /\ action = ReviewActions[1]
             /\ action = <<"d", "i", "f", "f">>
             /\ action # <<"m", "e", "r", "g", "e">>)
  /\ [][pc = "match" =>
          IF \E name \in ActionNames : IsStartOf(user_input[1], name)
          THEN pc' = "return"
          ELSE /\ pc' = "prompt"
               /\ UNCHANGED <<args, diff_url, stdout_isatty, stdin_isatty,
                              input_called, line, user_input, fetched,
                              rollup_state, pr, update_details, updates,
                              updates_by_group_name, groups, gi, to_review,
                              action, mi, mergeCalls, effect, exc,
                              exit_code>>]_vars

\* The user typed "mx", which starts no action: read_action is at its prompt
\* again and has returned nothing.
C24_Witness ==
  /\ pc = "prompt"
  /\ stdout_isatty
  /\ input_called
  /\ line = Some(<<"m", "x">>)
  /\ user_input = Some(<<"m", "x">>)
  /\ action = <<>>
  /\ effect = NoEffect
  /\ exc = ""

====
